---- MODULE Spec2Model ----
\* State-machine model of the ARGO ETL script data_pipeline/build_database.py:
\* configuration, engine creation, the TRUNCATE of argo_profiles, discovery of
\* the profile files under 'nc files', and main()'s per-file loop around
\* process_profile_file.
EXTENDS Integers, Sequences, FiniteSets, TLC

\* ---------------------------------------------------------------- bounds
\* Largest number of directory entries under the root folder.
MaxFiles == 2
\* Largest number of depth levels of the enumerated measurement arrays.
MaxLevels == 2
\* Largest number of calls of run_ai_pipeline followed.
MaxCalls == 2
\* Largest number of websocket connections followed.
MaxSockets == 2

\* ---------------------------------------------------------------- values
\* numpy's not-a-number and Python's None; every stored measurement is >= 0.
NaN == -1
None == -2

isnan(x) == x = NaN

\* ---------------------------------------------------------------- strings
\* A Python str is a sequence of one-character strings.
root_data_folder == "nc files"
sub_folder == "nc files/sub"

D100_prof_nc == <<"D", "1", "0", "0", "_", "p", "r", "o", "f", ".", "n", "c">>
R200_prof_nc == <<"R", "2", "0", "0", "_", "p", "r", "o", "f", ".", "n", "c">>
Dabc_prof_nc == <<"D", "a", "b", "c", "_", "p", "r", "o", "f", ".", "n", "c">>
D1R2_prof_nc == <<"D", "1", "R", "2", "_", "p", "r", "o", "f", ".", "n", "c">>
D7_nc == <<"D", "7", ".", "n", "c">>
notes_nc == <<"n", "o", "t", "e", "s", ".", "n", "c">>
D100_prof_txt == <<"D", "1", "0", "0", "_", "p", "r", "o", "f", ".", "t", "x", "t">>

\* str.startswith / str.endswith
startswith(s, p) == Len(s) >= Len(p) /\ SubSeq(s, 1, Len(p)) = p
endswith(s, p) == Len(s) >= Len(p) /\ SubSeq(s, Len(s) - Len(p) + 1, Len(s)) = p

\* s.split(sep)[0]: the part of s before the first occurrence of the character sep
RECURSIVE split_first(_, _)
split_first(s, sep) ==
    IF s = <<>> \/ Head(s) = sep THEN <<>>
    ELSE <<Head(s)>> \o split_first(Tail(s), sep)

\* s.replace(c, ''): every occurrence of the character c removed
replace_char(s, c) == SelectSeq(s, LAMBDA x : x # c)

Digits == {"0", "1", "2", "3", "4", "5", "6", "7", "8", "9"}
DigitVal(c) == CASE c = "0" -> 0 [] c = "1" -> 1 [] c = "2" -> 2 [] c = "3" -> 3
                 [] c = "4" -> 4 [] c = "5" -> 5 [] c = "6" -> 6 [] c = "7" -> 7
                 [] c = "8" -> 8 [] c = "9" -> 9

RECURSIVE DigitsVal(_, _)
DigitsVal(s, acc) ==
    IF s = <<>> THEN acc ELSE DigitsVal(Tail(s), 10 * acc + DigitVal(Head(s)))

AllDigits(s) == s # <<>> /\ \A i \in 1..Len(s) : s[i] \in Digits

\* int(s) for a str of the characters modelled here (no white space, no '_'):
\* an optional sign followed by one or more decimal digits; anything else is a
\* ValueError.
int_ok(s) ==
    \/ AllDigits(s)
    \/ s # <<>> /\ Head(s) \in {"+", "-"} /\ AllDigits(Tail(s))
int_val(s) ==
    IF AllDigits(s) THEN DigitsVal(s, 0)
    ELSE IF Head(s) = "-" THEN 0 - DigitsVal(Tail(s), 0)
    ELSE DigitsVal(Tail(s), 0)

\* os.path.join(root, file) and os.path.basename of such a path
path_join(root, file) == [dir |-> root, name |-> file]
basename(file_path) == file_path.name

\* os.path.basename(file_path).split('_')[0].replace('D', '').replace('R', '')
id_text(file_path) ==
    replace_char(replace_char(split_first(basename(file_path), "_"), "D"), "R")

\* ---------------------------------------------------------------- source files
\* A NetCDF file is the map from its variable names to their arrays; the
\* measurement arrays are one-dimensional with one entry per depth level.
\* Data(n, nprof, tNaN, sNaN): n depth levels, nprof time/position entries,
\* temperature NaN at the indices tNaN and salinity NaN at the indices sNaN.
Data(n, nprof, tNaN, sNaN) ==
    [juld |-> [i \in 1..nprof |-> 10 + i],
     lat  |-> [i \in 1..nprof |-> 20 + i],
     lon  |-> [i \in 1..nprof |-> 30 + i],
     pres |-> [i \in 1..n |-> 40 + i],
     temp |-> [i \in 1..n |-> IF i \in tNaN THEN NaN ELSE 50 + i],
     psal |-> [i \in 1..n |-> IF i \in sNaN THEN NaN ELSE 60 + i]]

\* The array a variable holds: the data of its role, shifted by off so that
\* two variables of one role (adjusted and raw, two spellings) differ.
Arr(d, role) ==
    [i \in 1..Len(d[role.f]) |->
        IF isnan(d[role.f][i]) THEN NaN ELSE d[role.f][i] + role.off]

Role(f, off) == [f |-> f, off |-> off]

\* Variable-name layouts met in profile files.
Upper ==
    [JULD |-> Role("juld", 0), LATITUDE |-> Role("lat", 0),
     LONGITUDE |-> Role("lon", 0), PRES_ADJUSTED |-> Role("pres", 0),
     TEMP_ADJUSTED |-> Role("temp", 0), PSAL_ADJUSTED |-> Role("psal", 0)]
Lower ==
    [juld |-> Role("juld", 0), latitude |-> Role("lat", 0),
     longitude |-> Role("lon", 0), pres_adjusted |-> Role("pres", 0),
     temp_adjusted |-> Role("temp", 0), psal_adjusted |-> Role("psal", 0)]
RawUpper ==
    [JULD |-> Role("juld", 0), LATITUDE |-> Role("lat", 0),
     LONGITUDE |-> Role("lon", 0), PRES |-> Role("pres", 0),
     TEMP |-> Role("temp", 0), PSAL |-> Role("psal", 0)]
AdjAndRaw ==
    [JULD |-> Role("juld", 0), LATITUDE |-> Role("lat", 0),
     LONGITUDE |-> Role("lon", 0), PRES_ADJUSTED |-> Role("pres", 0),
     TEMP_ADJUSTED |-> Role("temp", 0), PSAL_ADJUSTED |-> Role("psal", 0),
     PRES |-> Role("pres", 100), TEMP |-> Role("temp", 100),
     PSAL |-> Role("psal", 100)]
NoPsal ==
    [JULD |-> Role("juld", 0), LATITUDE |-> Role("lat", 0),
     LONGITUDE |-> Role("lon", 0), PRES_ADJUSTED |-> Role("pres", 0),
     TEMP_ADJUSTED |-> Role("temp", 0)]
MixedCase ==
    [juld |-> Role("juld", 0), latitude |-> Role("lat", 0),
     LONGITUDE |-> Role("lon", 0), PRES_ADJUSTED |-> Role("pres", 0),
     TEMP_ADJUSTED |-> Role("temp", 0), PSAL_ADJUSTED |-> Role("psal", 0)]
BothCase ==
    [JULD |-> Role("juld", 0), LATITUDE |-> Role("lat", 0),
     LONGITUDE |-> Role("lon", 0), PRES_ADJUSTED |-> Role("pres", 0),
     TEMP_ADJUSTED |-> Role("temp", 0), PSAL_ADJUSTED |-> Role("psal", 0),
     juld |-> Role("juld", 200), latitude |-> Role("lat", 200),
     longitude |-> Role("lon", 200), pres_adjusted |-> Role("pres", 200),
     temp_adjusted |-> Role("temp", 200), psal_adjusted |-> Role("psal", 200)]
Layouts == {Upper, Lower, RawUpper, AdjAndRaw, NoPsal, MixedCase, BothCase}

\* A directory entry: where it is, its name, whether it can be opened
\* ("ok"; "missing": gone when opened; "corrupt": not a readable NetCDF file),
\* and its variables.
File(dir, name, status, layout, d) ==
    [dir |-> dir, name |-> name, status |-> status,
     vars |-> [v \in DOMAIN layout |-> Arr(d, layout[v])]]

\* The same file with a PLATFORM_NUMBER character variable.
WithPlatform(f, chars) ==
    [f EXCEPT !.vars = [v \in DOMAIN f.vars \cup {"PLATFORM_NUMBER"} |->
                           IF v = "PLATFORM_NUMBER" THEN chars ELSE f.vars[v]]]

\* ds.variables membership and ds[name].values
has(ds, v) == v \in DOMAIN ds.vars
values(ds, v) == ds.vars[v]

\* str(ds['PLATFORM_NUMBER'].values) of a one-element byte-string array
str_values(chars) == <<"[", "b", "'">> \o chars \o <<"'", "]">>

\* ---------------------------------------------------------------- messages
\* A console line: its severity marker, what it reports, the file it names
\* (shown as base name or as full path) and the count it prints.
NoPath == [dir |-> "", name |-> <<>>]
Msg(level, kind, file_path, shown, n) ==
    [level |-> level, kind |-> kind, file |-> file_path, shown |-> shown, n |-> n]

\* ---------------------------------------------------------------- process_profile_file
\* The alias table of the "Smart Attribute Selection", in dict order.
potential_names ==
    << [clean |-> "profile_date", ugly |-> <<"juld", "JULD">>],
       [clean |-> "latitude", ugly |-> <<"latitude", "LATITUDE">>],
       [clean |-> "longitude", ugly |-> <<"longitude", "LONGITUDE">>],
       [clean |-> "pressure", ugly |-> <<"pres_adjusted", "PRES_ADJUSTED">>],
       [clean |-> "temperature", ugly |-> <<"temp_adjusted", "TEMP_ADJUSTED">>],
       [clean |-> "salinity", ugly |-> <<"psal_adjusted", "PSAL_ADJUSTED">>] >>

CleanNames == {potential_names[k].clean : k \in 1..Len(potential_names)}

\* Mutant of first_present: the loop has no break, the last alias present wins.
RECURSIVE last_present(_, _)
last_present(ds, ugly_names) ==
    IF ugly_names = <<>> THEN "None"
    ELSE IF has(ds, ugly_names[Len(ugly_names)]) THEN ugly_names[Len(ugly_names)]
    ELSE last_present(ds, SubSeq(ugly_names, 1, Len(ugly_names) - 1))

\* The inner loop with its break: the first alias of the list present in the
\* file, or None when no alias is present.
RECURSIVE first_present(_, _)
first_present(ds, ugly_names) ==
    IF ugly_names = <<>> THEN "None"
    ELSE IF has(ds, Head(ugly_names)) THEN Head(ugly_names)
    ELSE first_present(ds, Tail(ugly_names))

\* column_map after the two loops: resolved source name -> canonical name
column_map(ds) ==
    LET hit == {k \in 1..Len(potential_names) :
                    first_present(ds, potential_names[k].ugly) # "None"}
        keys == {first_present(ds, potential_names[k].ugly) : k \in hit}
    IN [u \in keys |->
          potential_names[CHOOSE k \in hit :
              first_present(ds, potential_names[k].ugly) = u].clean]

\* np.isnan(a).all()
all_nan(a) == \A i \in 1..Len(a) : isnan(a[i])

\* platform_number as computed before the row loop
platform_number_of(ds, file_path) ==
    IF has(ds, "PLATFORM_NUMBER") THEN str_values(values(ds, "PLATFORM_NUMBER"))
    ELSE IF has(ds, "platform_number") THEN str_values(values(ds, "platform_number"))
    ELSE id_text(file_path)

\* ds[name].values[i] if name in ds.variables else None; index i is 1-based here
value_or_none(ds, name, i) == IF has(ds, name) THEN values(ds, name)[i] ELSE None
index_error(ds, name, i) == has(ds, name) /\ i > Len(values(ds, name))

\* Mutant of row_loop: the "Skip inserting rows where primary data is NaN"
\* test is left out.
RECURSIVE row_loop_unfiltered(_, _, _, _)
row_loop_unfiltered(ds, platform_number, i, data_to_insert) ==
    IF i > Len(values(ds, "PRES_ADJUSTED")) THEN [err |-> FALSE, rows |-> data_to_insert]
    ELSE IF \/ index_error(ds, "TEMP_ADJUSTED", i) \/ index_error(ds, "PSAL_ADJUSTED", i)
            \/ index_error(ds, "JULD", i) \/ index_error(ds, "LATITUDE", i)
            \/ index_error(ds, "LONGITUDE", i)
    THEN [err |-> TRUE, rows |-> <<>>]
    ELSE row_loop_unfiltered(ds, platform_number, i + 1,
             Append(data_to_insert,
                [platform_number |-> platform_number,
                 profile_date |-> value_or_none(ds, "JULD", i),
                 latitude |-> value_or_none(ds, "LATITUDE", i),
                 longitude |-> value_or_none(ds, "LONGITUDE", i),
                 pressure |-> value_or_none(ds, "PRES_ADJUSTED", i),
                 temperature |-> values(ds, "TEMP_ADJUSTED")[i],
                 salinity |-> values(ds, "PSAL_ADJUSTED")[i]]))

\* Mutant of row_loop: an array read that raises ends the loop and the rows
\* collected so far are kept.
RECURSIVE row_loop_keeps_partial(_, _, _, _)
row_loop_keeps_partial(ds, platform_number, i, data_to_insert) ==
    IF i > Len(values(ds, "PRES_ADJUSTED")) THEN [err |-> FALSE, rows |-> data_to_insert]
    ELSE IF index_error(ds, "TEMP_ADJUSTED", i) \/ index_error(ds, "PSAL_ADJUSTED", i)
    THEN [err |-> FALSE, rows |-> data_to_insert]
    ELSE LET temp == values(ds, "TEMP_ADJUSTED")[i]
             psal == values(ds, "PSAL_ADJUSTED")[i]
         IN IF isnan(temp) \/ isnan(psal)
            THEN row_loop_keeps_partial(ds, platform_number, i + 1, data_to_insert)
            ELSE IF \/ index_error(ds, "JULD", i)
                    \/ index_error(ds, "LATITUDE", i)
                    \/ index_error(ds, "LONGITUDE", i)
            THEN [err |-> FALSE, rows |-> data_to_insert]
            ELSE row_loop_keeps_partial(ds, platform_number, i + 1,
                     Append(data_to_insert,
                        [platform_number |-> platform_number,
                         profile_date |-> value_or_none(ds, "JULD", i),
                         latitude |-> value_or_none(ds, "LATITUDE", i),
                         longitude |-> value_or_none(ds, "LONGITUDE", i),
                         pressure |-> value_or_none(ds, "PRES_ADJUSTED", i),
                         temperature |-> temp,
                         salinity |-> psal]))

\* The row loop over range(len(ds['PRES_ADJUSTED'])): the rows collected, or
\* err when an array read raised (the rows collected so far are then dropped).
RECURSIVE row_loop(_, _, _, _)
row_loop(ds, platform_number, i, data_to_insert) ==
    IF i > Len(values(ds, "PRES_ADJUSTED")) THEN [err |-> FALSE, rows |-> data_to_insert]
    ELSE IF index_error(ds, "TEMP_ADJUSTED", i) \/ index_error(ds, "PSAL_ADJUSTED", i)
    THEN [err |-> TRUE, rows |-> <<>>]
    ELSE LET temp == values(ds, "TEMP_ADJUSTED")[i]
             psal == values(ds, "PSAL_ADJUSTED")[i]
         IN IF isnan(temp) \/ isnan(psal)
            THEN row_loop(ds, platform_number, i + 1, data_to_insert)
            ELSE IF \/ index_error(ds, "JULD", i)
                    \/ index_error(ds, "LATITUDE", i)
                    \/ index_error(ds, "LONGITUDE", i)
            THEN [err |-> TRUE, rows |-> <<>>]
            ELSE row_loop(ds, platform_number, i + 1,
                     Append(data_to_insert,
                        [platform_number |-> platform_number,
                         profile_date |-> value_or_none(ds, "JULD", i),
                         latitude |-> value_or_none(ds, "LATITUDE", i),
                         longitude |-> value_or_none(ds, "LONGITUDE", i),
                         pressure |-> value_or_none(ds, "PRES_ADJUSTED", i),
                         temperature |-> temp,
                         salinity |-> psal]))

\* row['float_id'] = float_id
with_float_id(row, float_id) ==
    [platform_number |-> row.platform_number, profile_date |-> row.profile_date,
     latitude |-> row.latitude, longitude |-> row.longitude,
     pressure |-> row.pressure, temperature |-> row.temperature,
     salinity |-> row.salinity, float_id |-> float_id]

\* What one call returns and does: ret the returned count, rows the rows
\* appended to argo_profiles, msgs the lines printed.
Outcome(ret, rows, msgs) == [ret |-> ret, rows |-> rows, msgs |-> msgs]
Failed(file_path, reason) ==
    Outcome(0, <<>>, <<Msg("error", reason, file_path, "path", 0)>>)

\* The try block after the reconciliation check: extraction, float_id, load.
extract_and_load(ds, file_path, insert_ok) ==
    LET name_only == Msg("error", "array_error", file_path, "basename", 0)
        array_error == Outcome(0, <<>>, <<name_only>>)
        all_nan_skip ==
            Outcome(0, <<>>, <<Msg("warning", "all_nan", file_path, "basename", 0)>>)
    IN  IF ~has(ds, "TEMP_ADJUSTED") THEN array_error
        ELSE IF all_nan(values(ds, "TEMP_ADJUSTED")) THEN all_nan_skip
        ELSE IF ~has(ds, "PSAL_ADJUSTED") THEN array_error
        ELSE IF all_nan(values(ds, "PSAL_ADJUSTED")) THEN all_nan_skip
        ELSE IF ~has(ds, "PRES_ADJUSTED") THEN array_error
        ELSE LET r == row_loop(ds, platform_number_of(ds, file_path), 1, <<>>)
             IN  IF r.err THEN array_error
                 ELSE IF r.rows = <<>>
                 THEN Outcome(0, <<>>,
                        <<Msg("info", "no_valid_rows", file_path, "basename", 0)>>)
                 ELSE IF ~int_ok(id_text(file_path))
                 THEN Failed(file_path, "bad_file_name")
                 ELSE IF ~insert_ok THEN Failed(file_path, "insert_failed")
                 ELSE LET float_id == int_val(id_text(file_path))
                          df_to_load == [k \in 1..Len(r.rows) |->
                                            with_float_id(r.rows[k], float_id)]
                      IN  Outcome(Len(df_to_load), df_to_load, <<>>)

\* Mutant of process_profile_file: the len(column_map) != 6 check is left out.
process_profile_file_unchecked(ds, file_path, insert_ok) ==
    IF ds.status = "missing"
    THEN Outcome(0, <<>>, <<Msg("error", "file_not_found", file_path, "path", 0)>>)
    ELSE IF ds.status = "corrupt" THEN Failed(file_path, "open_failed")
    ELSE extract_and_load(ds, file_path, insert_ok)

\* process_profile_file(file_path, engine) on the file ds found at file_path;
\* insert_ok tells whether to_sql succeeds if it is reached.
process_profile_file(ds, file_path, insert_ok) ==
    IF ds.status = "missing"
    THEN Outcome(0, <<>>, <<Msg("error", "file_not_found", file_path, "path", 0)>>)
    ELSE IF ds.status = "corrupt" THEN Failed(file_path, "open_failed")
    ELSE IF Cardinality(DOMAIN column_map(ds)) # 6
    THEN Failed(file_path, "missing_variable")
    ELSE extract_and_load(ds, file_path, insert_ok)

\* ---------------------------------------------------------------- input space
BaseData == Data(MaxLevels, MaxLevels, {}, {})
\* Every NaN pattern of up to MaxLevels depth levels, and files whose time and
\* position arrays hold a single entry.
DataSet ==
    UNION {{Data(n, n, t, s) : t \in SUBSET (1..n), s \in SUBSET (1..n)} :
              n \in 0..MaxLevels}
    \cup {Data(n, 1, {}, {}) : n \in 1..MaxLevels}
FiveLevels == Data(5, 5, {}, {})

Catalogue ==
    {File(root_data_folder, D100_prof_nc, "ok", lay, BaseData) : lay \in Layouts}
    \cup {File(root_data_folder, D100_prof_nc, "ok", Upper, d) : d \in DataSet}
    \cup {File(root_data_folder, D100_prof_nc, st, Upper, BaseData) :
             st \in {"missing", "corrupt"}}
    \cup {WithPlatform(File(root_data_folder, D100_prof_nc, "ok", Upper, BaseData),
                       <<"2", "9">>)}
    \cup {File(root_data_folder, D100_prof_nc, "ok", Upper, FiveLevels),
          File(sub_folder, R200_prof_nc, "ok", Upper, FiveLevels),
          File(sub_folder, R200_prof_nc, "ok", Upper, BaseData)}
    \cup {File(sub_folder, D100_prof_nc, "ok", lay, BaseData) : lay \in {Upper, Lower}}
    \cup {File(root_data_folder, nm, "ok", Upper, BaseData) :
             nm \in {Dabc_prof_nc, D1R2_prof_nc, D7_nc, notes_nc, D100_prof_txt}}

\* Directory trees in os.walk order: no two entries share a path, and the
\* files of the root folder are listed before those of its sub-folder (the
\* order within one folder is the file system's).
same_path(f, g) == f.dir = g.dir /\ f.name = g.name
walk_order(t, g) ==
    \A i \in DOMAIN t : t[i].dir = sub_folder => g.dir = sub_folder
RECURSIVE TreesOfLen(_)
TreesOfLen(k) ==
    IF k = 0 THEN {<<>>}
    ELSE UNION {{Append(t, f) :
                    f \in {g \in Catalogue :
                              /\ \A i \in DOMAIN t : ~same_path(t[i], g)
                              /\ walk_order(t, g)}} :
                  t \in TreesOfLen(k - 1)}
Trees == UNION {TreesOfLen(k) : k \in 0..MaxFiles}

\* A row left in argo_profiles by an earlier load.
OldRow ==
    [platform_number |-> <<"9">>, profile_date |-> 1, latitude |-> 2,
     longitude |-> 3, pressure |-> 4, temperature |-> 5, salinity |-> 6,
     float_id |-> 9]

\* ---------------------------------------------------------------- state
VARIABLES
    db_password,          \* os.getenv("DB_PASSWORD") is set
    root_exists,          \* the folder 'nc files' exists
    tree,                 \* its entries, in os.walk order
    table_exists,         \* argo_profiles exists in the database
    table,                \* the rows of argo_profiles
    pc,                   \* position of the script
    nc_files_to_process,  \* the discovered paths
    idx,                  \* main(): position of the for loop in that list
    total_rows_loaded,    \* main(): the running total
    log,                  \* the console lines printed so far
    truncates,            \* history: TRUNCATE attempts and whether each committed
    results,              \* history: per processed file, its path and Outcome
    prev,                 \* history: how the run before this one ended
    script,               \* the script whose per-file loop is followed
    scan_pc,              \* position of that script
    scan_pos,             \* position of its for loop in the discovered list
    dataset,              \* the path of the dataset its variable is bound to
    open_files,           \* the paths of the files that are open
    all_files_attributes, \* inspector: file name -> variable set, in insertion order
    report,               \* inspector: what phases 2 and 3 print
    flagged_files,        \* checker: the (filename, reason) pairs
    components,           \* main_agent: llm, db, rag_chain, conversation_chain are set
    agent_pc,             \* run_ai_pipeline: position of the call
    question,             \* run_ai_pipeline: its argument
    generated_sql,        \* run_ai_pipeline: the query of the RAG chain
    answer,               \* what the call returned to its caller
    failure,              \* history: what went wrong in the call
    calls,                \* history: the number of calls made
    connected_websockets, \* api_server: the list of registered sockets
    handler,              \* websocket_endpoint: position of each socket's handler
    broadcast             \* broadcast_to_websockets: the broadcast under way

vars == <<db_password, root_exists, tree, table_exists, table, pc,
          nc_files_to_process, idx, total_rows_loaded, log, truncates, results,
          prev, script, scan_pc, scan_pos, dataset, open_files,
          all_files_attributes, report, flagged_files,
          components, agent_pc, question, generated_sql, answer, failure, calls,
          connected_websockets, handler, broadcast>>

\* the question-answering core and the websocket registry of the API server
agent == <<components, agent_pc, question, generated_sql, answer, failure, calls>>
sockets == <<connected_websockets, handler, broadcast>>
services == <<agent, sockets>>

\* the open files of a per-file loop followed step by step
handles == <<script, scan_pc, scan_pos, dataset, open_files>>

\* what no step of one run of the script changes: each step of the script
\* leaves open the files it found open
env == <<db_password, root_exists, tree, prev, handles,
         all_files_attributes, report, flagged_files, services>>

\* what the two diagnostic scripts collect
diag == <<all_files_attributes, report, flagged_files>>

\* Nothing was reported.
NoReport ==
    [scanned |-> 0, first_file_name |-> <<>>, base_attributes |-> {},
     inconsistent_files |-> <<>>]

\* Python values of the answer dict, each with its type
NoneValue == [type |-> "NoneType"]
Str(text) == [type |-> "str", value |-> text]
List(items) == [type |-> "list", value |-> items]

\* the websocket connections, none of them open yet
Sockets == 1..MaxSockets
NoBroadcast ==
    [pc |-> "idle", index |-> 0, ws |-> 0, disconnected |-> <<>>,
     attempted |-> {}, stayed |-> {}, failed |-> {}, removed |-> {}]

\* main_agent.py as imported and api_server.py as started
ServicesIdle ==
    /\ components = FALSE
    /\ agent_pc = "idle"
    /\ question = ""
    /\ generated_sql = ""
    /\ answer = NoneValue
    /\ failure = "none"
    /\ calls = 0
    /\ connected_websockets = <<>>
    /\ handler = [ws \in Sockets |-> "new"]
    /\ broadcast = NoBroadcast

\* No run came before.
NoPrev ==
    [ran |-> FALSE, pc |-> "config", tree |-> <<>>, table |-> <<>>, total |-> 0,
     truncates |-> <<>>, failed |-> {}]

Init ==
    /\ db_password \in BOOLEAN
    /\ root_exists \in BOOLEAN
    /\ tree \in Trees
    /\ (~root_exists => tree = <<>>)
    /\ \/ table_exists = FALSE /\ table = <<>>
       \/ table_exists = TRUE /\ table = <<OldRow>>
    /\ pc = "config"
    /\ nc_files_to_process = <<>>
    /\ idx = 0
    /\ total_rows_loaded = 0
    /\ log = <<>>
    /\ truncates = <<>>
    /\ results = <<>>
    /\ prev = NoPrev
    /\ script = "build_database"
    /\ scan_pc = "start"
    /\ scan_pos = 0
    /\ dataset = NoPath
    /\ open_files = {}
    /\ all_files_attributes = <<>>
    /\ report = NoReport
    /\ flagged_files = <<>>
    /\ ServicesIdle

\* ---------------------------------------------------------------- module level
\* Mutant of LoadConfig: the check of DB_PASSWORD is left out.
LoadConfig_IgnoresPassword ==
    /\ pc = "config"
    /\ pc' = "engine"
    /\ UNCHANGED <<env, table_exists, table, nc_files_to_process, idx,
                   total_rows_loaded, log, truncates, results>>

\* load_dotenv(), DB_PASSWORD: a ValueError ends the script when it is not set.
LoadConfig ==
    /\ pc = "config"
    /\ pc' = IF db_password THEN "engine" ELSE "aborted"
    /\ UNCHANGED <<env, table_exists, table, nc_files_to_process, idx,
                   total_rows_loaded, log, truncates, results>>

\* Mutant of CreateEngine: the script goes on to discovery without the
\* truncate block.
CreateEngine_SkipsTruncate ==
    /\ pc = "engine"
    /\ \E engine_ok \in BOOLEAN :
        IF engine_ok
        THEN /\ pc' = "discover"
             /\ log' = Append(log, Msg("ok", "engine_created", NoPath, "none", 0))
        ELSE /\ pc' = "exited"
             /\ log' = Append(log, Msg("error", "engine_failed", NoPath, "none", 0))
    /\ UNCHANGED <<env, table_exists, table, nc_files_to_process, idx,
                   total_rows_loaded, truncates, results>>

\* create_engine in its try block: exit() when it raises.
CreateEngine ==
    /\ pc = "engine"
    /\ \E engine_ok \in BOOLEAN :
        IF engine_ok
        THEN /\ pc' = "truncate"
             /\ log' = Append(log, Msg("ok", "engine_created", NoPath, "none", 0))
        ELSE /\ pc' = "exited"
             /\ log' = Append(log, Msg("error", "engine_failed", NoPath, "none", 0))
    /\ UNCHANGED <<env, table_exists, table, nc_files_to_process, idx,
                   total_rows_loaded, truncates, results>>

\* Mutant of Truncate: the except clause ends the script.
Truncate_FatalOnFailure ==
    /\ pc = "truncate"
    /\ \E truncate_ok \in BOOLEAN :
        /\ truncate_ok => table_exists
        /\ truncates' = Append(truncates, truncate_ok)
        /\ IF truncate_ok
           THEN /\ table' = <<>>
                /\ pc' = "discover"
                /\ log' = Append(log, Msg("ok", "table_cleared", NoPath, "none", 0))
           ELSE /\ table' = table
                /\ pc' = "exited"
                /\ log' = Append(log, Msg("warning", "truncate_failed", NoPath, "none", 0))
    /\ UNCHANGED <<env, table_exists, nc_files_to_process, idx,
                   total_rows_loaded, results>>

\* Mutant of Truncate: the statement reports success and removes nothing.
Truncate_KeepsRows ==
    /\ pc = "truncate"
    /\ \E truncate_ok \in BOOLEAN :
        /\ truncate_ok => table_exists
        /\ truncates' = Append(truncates, truncate_ok)
        /\ table' = table
        /\ log' = Append(log, IF truncate_ok
                              THEN Msg("ok", "table_cleared", NoPath, "none", 0)
                              ELSE Msg("warning", "truncate_failed", NoPath, "none", 0))
    /\ pc' = "discover"
    /\ UNCHANGED <<env, table_exists, nc_files_to_process, idx,
                   total_rows_loaded, results>>

\* TRUNCATE TABLE argo_profiles RESTART IDENTITY in its try block: it raises
\* when the table does not exist and may raise on a connection error; the
\* script goes on either way.
Truncate ==
    /\ pc = "truncate"
    /\ \E truncate_ok \in BOOLEAN :
        /\ truncate_ok => table_exists
        /\ truncates' = Append(truncates, truncate_ok)
        /\ IF truncate_ok
           THEN /\ table' = <<>>
                /\ log' = Append(log, Msg("ok", "table_cleared", NoPath, "none", 0))
           ELSE /\ table' = table
                /\ log' = Append(log, Msg("warning", "truncate_failed", NoPath, "none", 0))
    /\ pc' = "discover"
    /\ UNCHANGED <<env, table_exists, nc_files_to_process, idx,
                   total_rows_loaded, results>>

\* Mutant of is_profile_name: the test of the first letter is left out.
is_profile_name_any_nc(file) ==
    endswith(file, <<".", "n", "c">>)

\* if file.endswith('.nc') and (file.startswith('D') or file.startswith('R'))
is_profile_name(file) ==
    /\ endswith(file, <<".", "n", "c">>)
    /\ (startswith(file, <<"D">>) \/ startswith(file, <<"R">>))

\* The os.walk loop over the entries seen so far.
RECURSIVE walk(_)
walk(entries) ==
    IF entries = <<>> THEN <<>>
    ELSE IF is_profile_name(Head(entries).name)
    THEN <<path_join(Head(entries).dir, Head(entries).name)>> \o walk(Tail(entries))
    ELSE walk(Tail(entries))

\* Discovery, and exit() when nothing was found.
Discover ==
    /\ pc = "discover"
    /\ LET found == IF root_exists THEN walk(tree) ELSE <<>>
       IN  /\ nc_files_to_process' = found
           /\ IF found = <<>>
              THEN /\ pc' = "exited"
                   /\ log' = Append(log, Msg("warning", "no_files", NoPath, "none", 0))
              ELSE /\ pc' = "loaded"
                   /\ log' = Append(log, Msg("ok", "found", NoPath, "none", Len(found)))
    /\ UNCHANGED <<env, table_exists, table, idx, total_rows_loaded,
                   truncates, results>>

\* ---------------------------------------------------------------- main
\* The script defines main() and never calls it: the loop runs only when a
\* caller of the module invokes main().
CallMain ==
    /\ pc = "loaded"
    /\ pc' = "loop"
    /\ idx' = 1
    /\ total_rows_loaded' = 0
    /\ UNCHANGED <<env, table_exists, table, nc_files_to_process, log,
                   truncates, results>>

\* xr.open_dataset(file_path): the entry of the tree at that path
dataset_at(file_path) ==
    LET k == CHOOSE k \in DOMAIN tree :
                 tree[k].dir = file_path.dir /\ tree[k].name = file_path.name
    IN  tree[k]

\* Mutant of ProcessFile: a failed insert rolls the table back to empty.
ProcessFile_RollsBack ==
    /\ pc = "loop"
    /\ idx <= Len(nc_files_to_process)
    /\ \E insert_ok \in BOOLEAN :
        LET file_path == nc_files_to_process[idx]
            out == process_profile_file(dataset_at(file_path), file_path, insert_ok)
            rows_loaded == out.ret
            insert_failed == \E m \in DOMAIN out.msgs : out.msgs[m].kind = "insert_failed"
        IN  /\ table' = IF insert_failed THEN <<>> ELSE table \o out.rows
            /\ table_exists' = (table_exists \/ out.rows # <<>>)
            /\ total_rows_loaded' = total_rows_loaded + rows_loaded
            /\ log' = log
                  \o <<Msg("ok", "processing", file_path, "basename", 0)>>
                  \o out.msgs
                  \o (IF rows_loaded > 0
                      THEN <<Msg("ok", "success", NoPath, "none", rows_loaded)>>
                      ELSE <<>>)
            /\ results' = Append(results, [file |-> file_path, out |-> out])
    /\ idx' = idx + 1
    /\ UNCHANGED <<env, nc_files_to_process, pc, truncates>>

\* Mutant of ProcessFile: process_profile_file without its outer except
\* clauses, so that a failure of one file ends main().
ProcessFile_Propagates ==
    /\ pc = "loop"
    /\ idx <= Len(nc_files_to_process)
    /\ \E insert_ok \in BOOLEAN :
        LET file_path == nc_files_to_process[idx]
            out == process_profile_file(dataset_at(file_path), file_path, insert_ok)
            rows_loaded == out.ret
            raised == \E m \in DOMAIN out.msgs : out.msgs[m].shown = "path"
        IN  /\ table' = table \o out.rows
            /\ table_exists' = (table_exists \/ out.rows # <<>>)
            /\ total_rows_loaded' = total_rows_loaded + rows_loaded
            /\ log' = log \o <<Msg("ok", "processing", file_path, "basename", 0)>>
            /\ results' = Append(results, [file |-> file_path, out |-> out])
            /\ pc' = IF raised THEN "crashed" ELSE pc
    /\ idx' = idx + 1
    /\ UNCHANGED <<env, nc_files_to_process, truncates>>

\* Mutant of ProcessFile: the running total is overwritten by the count of
\* the file just processed instead of being added to.
ProcessFile_OverwritesTotal ==
    /\ pc = "loop"
    /\ idx <= Len(nc_files_to_process)
    /\ \E insert_ok \in BOOLEAN :
        LET file_path == nc_files_to_process[idx]
            out == process_profile_file(dataset_at(file_path), file_path, insert_ok)
            rows_loaded == out.ret
        IN  /\ table' = table \o out.rows
            /\ table_exists' = (table_exists \/ out.rows # <<>>)
            /\ total_rows_loaded' = rows_loaded
            /\ log' = log
                  \o <<Msg("ok", "processing", file_path, "basename", 0)>>
                  \o out.msgs
                  \o (IF rows_loaded > 0
                      THEN <<Msg("ok", "success", NoPath, "none", rows_loaded)>>
                      ELSE <<>>)
            /\ results' = Append(results, [file |-> file_path, out |-> out])
    /\ idx' = idx + 1
    /\ UNCHANGED <<env, nc_files_to_process, pc, truncates>>

\* Mutant of ProcessFile: the total counts the rows collected for the file,
\* whether or not their insert succeeded.
ProcessFile_CountsCollected ==
    /\ pc = "loop"
    /\ idx <= Len(nc_files_to_process)
    /\ \E insert_ok \in BOOLEAN :
        LET file_path == nc_files_to_process[idx]
            out == process_profile_file(dataset_at(file_path), file_path, insert_ok)
            rows_loaded ==
                process_profile_file(dataset_at(file_path), file_path, TRUE).ret
        IN  /\ table' = table \o out.rows
            /\ table_exists' = (table_exists \/ out.rows # <<>>)
            /\ total_rows_loaded' = total_rows_loaded + rows_loaded
            /\ log' = log
                  \o <<Msg("ok", "processing", file_path, "basename", 0)>>
                  \o out.msgs
                  \o (IF rows_loaded > 0
                      THEN <<Msg("ok", "success", NoPath, "none", rows_loaded)>>
                      ELSE <<>>)
            /\ results' = Append(results, [file |-> file_path, out |-> out])
    /\ idx' = idx + 1
    /\ UNCHANGED <<env, nc_files_to_process, pc, truncates>>

\* One iteration of the for loop of main().
ProcessFile ==
    /\ pc = "loop"
    /\ idx <= Len(nc_files_to_process)
    /\ \E insert_ok \in BOOLEAN :
        LET file_path == nc_files_to_process[idx]
            out == process_profile_file(dataset_at(file_path), file_path, insert_ok)
            rows_loaded == out.ret
        IN  /\ table' = table \o out.rows
            /\ table_exists' = (table_exists \/ out.rows # <<>>)
            /\ total_rows_loaded' = total_rows_loaded + rows_loaded
            /\ log' = log
                  \o <<Msg("ok", "processing", file_path, "basename", 0)>>
                  \o out.msgs
                  \o (IF rows_loaded > 0
                      THEN <<Msg("ok", "success", NoPath, "none", rows_loaded)>>
                      ELSE <<>>)
            /\ results' = Append(results, [file |-> file_path, out |-> out])
    /\ idx' = idx + 1
    /\ UNCHANGED <<env, nc_files_to_process, pc, truncates>>

\* The two prints after the loop.
Summary ==
    /\ pc = "loop"
    /\ idx > Len(nc_files_to_process)
    /\ pc' = "done"
    /\ log' = Append(log, Msg("ok", "summary", NoPath, "none", total_rows_loaded))
    /\ UNCHANGED <<env, table_exists, table, nc_files_to_process, idx,
                   total_rows_loaded, truncates, results>>

Next ==
    \/ LoadConfig
    \/ CreateEngine
    \/ Truncate
    \/ Discover
    \/ CallMain
    \/ ProcessFile
    \/ Summary

Spec == Init /\ [][Next]_vars

\* The script run from the command line: every step of the module is taken
\* when it can be, and so is every step of main() once main() was called;
\* nothing in the script calls main().
FairSpec ==
    /\ Spec
    /\ WF_vars(LoadConfig \/ CreateEngine \/ Truncate \/ Discover)
    /\ WF_vars(ProcessFile \/ Summary)

\* ---------------------------------------------------------------- a second run
\* The script has ended: by the ValueError, by exit(), at the end of the
\* module, or at the end of main().
Ended == pc \in {"aborted", "exited", "loaded", "done"}

\* the files whose insert failed in this run
FailedInserts ==
    {results[k].file : k \in {j \in DOMAIN results :
                                 \E m \in DOMAIN results[j].out.msgs :
                                     results[j].out.msgs[m].kind = "insert_failed"}}

\* The orders in which os.walk may list the same tree.
Reorderings(t) ==
    {u \in [DOMAIN t -> {t[i] : i \in DOMAIN t}] :
        /\ \A i, j \in DOMAIN t : i # j => u[i] # u[j]
        /\ \A i, j \in DOMAIN t :
              (i < j /\ u[i].dir = sub_folder) => u[j].dir = sub_folder}

\* The script is started once more on the same files and the same database:
\* module state starts afresh, the table is what the first run left.
Rerun ==
    /\ ~prev.ran
    /\ Ended
    /\ prev' = [ran |-> TRUE, pc |-> pc, tree |-> tree, table |-> table,
                total |-> total_rows_loaded, truncates |-> truncates,
                failed |-> FailedInserts]
    /\ tree' \in Reorderings(tree)
    /\ pc' = "config"
    /\ nc_files_to_process' = <<>>
    /\ idx' = 0
    /\ total_rows_loaded' = 0
    /\ log' = <<>>
    /\ truncates' = <<>>
    /\ results' = <<>>
    /\ UNCHANGED <<db_password, root_exists, table_exists, table, handles, diag,
                   services>>

NextRerun ==
    \/ LoadConfig
    \/ CreateEngine
    \/ Truncate
    \/ Discover
    \/ CallMain
    \/ ProcessFile
    \/ Summary
    \/ Rerun

\* The files of the two-run comparisons: two that load rows and one that
\* cannot be opened in the root folder, a name the discovery passes over, and
\* one file that loads rows and one that is skipped in the sub-folder.
SmallCatalogue ==
    {File(root_data_folder, D100_prof_nc, "ok", Upper, BaseData),
     File(root_data_folder, D100_prof_nc, "corrupt", Upper, BaseData),
     File(root_data_folder, D1R2_prof_nc, "ok", Upper, BaseData),
     File(root_data_folder, notes_nc, "ok", Upper, BaseData),
     File(sub_folder, R200_prof_nc, "ok", Upper, FiveLevels),
     File(sub_folder, D100_prof_nc, "ok", Lower, BaseData)}

InitRerun ==
    /\ Init
    /\ \A i \in DOMAIN tree : tree[i] \in SmallCatalogue

SpecRerun == InitRerun /\ [][NextRerun]_vars

\* ---------------------------------------------------------------- open files
\* The per-file loops of build_database.py, attribute_inspector.py and
\* data_quality_checker.py, followed from one open to the next.
Scripts == {"build_database", "attribute_inspector", "data_quality_checker"}

\* with xr.open_dataset(file_path) as ds:
ScopedScripts == {"build_database", "attribute_inspector"}

etl == <<table_exists, table, pc, nc_files_to_process, idx, total_rows_loaded,
         log, truncates, results>>

\* Measurements that do not vary: temperature and pressure hold one value
\* at each of n levels; with pres_varies the pressure differs by level.
ConstantData(n, pres_varies) ==
    [juld |-> [i \in 1..n |-> 10 + i],
     lat  |-> [i \in 1..n |-> 20 + i],
     lon  |-> [i \in 1..n |-> 30 + i],
     pres |-> [i \in 1..n |-> IF pres_varies THEN 40 + i ELSE 40],
     temp |-> [i \in 1..n |-> 50],
     psal |-> [i \in 1..n |-> 60 + i]]

\* The files of the diagnostic passes: those of SmallCatalogue, and in the
\* root folder files with no level, one level, all-NaN columns, constant
\* columns, both spellings, raw names only, and a missing salinity.
DiagCatalogue ==
    SmallCatalogue
    \cup {File(root_data_folder, D100_prof_nc, "ok", Upper, d) :
             d \in {Data(0, 0, {}, {}),
                    Data(1, 1, {}, {}),
                    Data(MaxLevels, MaxLevels, 1..MaxLevels, 1..MaxLevels),
                    Data(MaxLevels, MaxLevels, 1..MaxLevels, {}),
                    Data(MaxLevels, MaxLevels, {1}, {}),
                    ConstantData(MaxLevels, FALSE),
                    ConstantData(MaxLevels, TRUE)}}
    \cup {File(root_data_folder, D100_prof_nc, "ok", lay, BaseData) :
             lay \in {BothCase, RawUpper, Lower}}
    \cup {File(root_data_folder, D100_prof_nc, "missing", Upper, BaseData),
          File(root_data_folder, D1R2_prof_nc, "ok", NoPsal, BaseData)}

\* Directory trees over the files of a catalogue, in os.walk order.
RECURSIVE TreesFrom(_, _)
TreesFrom(catalogue, k) ==
    IF k = 0 THEN {<<>>}
    ELSE UNION {{Append(t, f) :
                    f \in {g \in catalogue :
                              /\ \A i \in DOMAIN t : ~same_path(t[i], g)
                              /\ walk_order(t, g)}} :
                  t \in TreesFrom(catalogue, k - 1)}
DiagTrees == UNION {TreesFrom(DiagCatalogue, k) : k \in 0..MaxFiles}

InitFiles ==
    /\ db_password = TRUE
    /\ root_exists = TRUE
    /\ tree \in DiagTrees
    /\ table_exists = FALSE
    /\ table = <<>>
    /\ pc = "config"
    /\ nc_files_to_process = <<>>
    /\ idx = 0
    /\ total_rows_loaded = 0
    /\ log = <<>>
    /\ truncates = <<>>
    /\ results = <<>>
    /\ prev = NoPrev
    /\ script \in Scripts
    /\ scan_pc = "start"
    /\ scan_pos = 0
    /\ dataset = NoPath
    /\ open_files = {}
    /\ all_files_attributes = <<>>
    /\ report = NoReport
    /\ flagged_files = <<>>
    /\ ServicesIdle

\* attribute_inspector.py: the os.walk loop that fills nc_files_to_inspect
RECURSIVE nc_files_to_inspect(_)
nc_files_to_inspect(entries) ==
    IF entries = <<>> THEN <<>>
    ELSE IF is_profile_name(Head(entries).name)
    THEN <<path_join(Head(entries).dir, Head(entries).name)>>
         \o nc_files_to_inspect(Tail(entries))
    ELSE nc_files_to_inspect(Tail(entries))

\* data_quality_checker.py: the os.walk loop that fills nc_files_to_check
RECURSIVE nc_files_to_check(_)
nc_files_to_check(entries) ==
    IF entries = <<>> THEN <<>>
    ELSE IF is_profile_name(Head(entries).name)
    THEN <<path_join(Head(entries).dir, Head(entries).name)>>
         \o nc_files_to_check(Tail(entries))
    ELSE nc_files_to_check(Tail(entries))

\* the list the script followed builds with its os.walk loop
scan_list ==
    IF script = "attribute_inspector" THEN nc_files_to_inspect(tree)
    ELSE IF script = "data_quality_checker" THEN nc_files_to_check(tree)
    ELSE walk(tree)

\* The discovery and the check that something was found; with nothing found
\* the diagnostic scripts call exit() and main() runs an empty loop.
ScanDiscover ==
    /\ scan_pc = "start"
    /\ scan_pc' = IF scan_list = <<>> THEN "ended" ELSE "loop"
    /\ scan_pos' = 1
    /\ UNCHANGED <<db_password, root_exists, tree, prev, services, etl, script, dataset,
                   open_files, diag>>

\* xr.open_dataset raises on a file that cannot be read
opens(file_path) == dataset_at(file_path).status = "ok"

\* Entering the with statement: the file is open inside the block; when
\* open_dataset raises, the except clause of the iteration is run.
OpenScoped ==
    /\ script \in ScopedScripts
    /\ scan_pc = "loop"
    /\ scan_pos <= Len(scan_list)
    /\ LET file_path == scan_list[scan_pos]
       IN  IF opens(file_path)
           THEN /\ open_files' = open_files \cup {file_path}
                /\ dataset' = file_path
                /\ scan_pc' = "opened"
                /\ scan_pos' = scan_pos
           ELSE /\ UNCHANGED <<open_files, dataset, scan_pc>>
                /\ scan_pos' = scan_pos + 1
    /\ UNCHANGED <<db_password, root_exists, tree, prev, services, etl, script, diag>>

\* all_files_attributes[filename] = attributes: a key already in the dict
\* keeps its place and gets the new value, a new key goes to the end.
dict_set(d, filename, attributes) ==
    IF \E k \in DOMAIN d : d[k].filename = filename
    THEN [k \in DOMAIN d |->
             IF d[k].filename = filename
             THEN [filename |-> filename, attributes |-> attributes]
             ELSE d[k]]
    ELSE Append(d, [filename |-> filename, attributes |-> attributes])

\* set(dataset.data_vars.keys())
data_vars(ds) == DOMAIN ds.vars

\* Leaving the with block, at its end or by an exception raised inside it:
\* the context manager closes the file either way.
ExitScoped ==
    /\ script \in ScopedScripts
    /\ scan_pc = "opened"
    /\ \E raised \in BOOLEAN :
          /\ open_files' = open_files \ {dataset}
          /\ dataset' = NoPath
    /\ all_files_attributes' =
          IF script = "attribute_inspector"
          THEN dict_set(all_files_attributes, basename(dataset),
                        data_vars(dataset_at(dataset)))
          ELSE all_files_attributes
    /\ scan_pc' = "loop"
    /\ scan_pos' = scan_pos + 1
    /\ UNCHANGED <<db_password, root_exists, tree, prev, services, etl, script, report,
                   flagged_files>>

\* Mutant of check_potential_names: the uppercase alias is tried first.
check_potential_names_upper_first ==
    << [clean |-> "temperature", ugly |-> <<"TEMP_ADJUSTED", "temp_adjusted">>],
       [clean |-> "salinity", ugly |-> <<"PSAL_ADJUSTED", "psal_adjusted">>],
       [clean |-> "pressure", ugly |-> <<"PRES_ADJUSTED", "pres_adjusted">>] >>

\* data_quality_checker.py: its alias table, in dict order
check_potential_names ==
    << [clean |-> "temperature", ugly |-> <<"temp_adjusted", "TEMP_ADJUSTED">>],
       [clean |-> "salinity", ugly |-> <<"psal_adjusted", "PSAL_ADJUSTED">>],
       [clean |-> "pressure", ugly |-> <<"pres_adjusted", "PRES_ADJUSTED">>] >>

\* argo_df.columns: the variables of the file are columns of the frame
in_columns(ds, ugly_name) == ugly_name \in DOMAIN ds.vars

\* the inner loop of the checker with its break
RECURSIVE check_first_present(_, _)
check_first_present(ds, ugly_names) ==
    IF ugly_names = <<>> THEN "None"
    ELSE IF in_columns(ds, Head(ugly_names)) THEN Head(ugly_names)
    ELSE check_first_present(ds, Tail(ugly_names))

\* the checker's column_map: resolved source name -> canonical name
check_column_map(ds) ==
    LET hit == {k \in 1..Len(check_potential_names) :
                    check_first_present(ds, check_potential_names[k].ugly) # "None"}
        keys == {check_first_present(ds, check_potential_names[k].ugly) : k \in hit}
    IN [u \in keys |->
          check_potential_names[CHOOSE k \in hit :
              check_first_present(ds, check_potential_names[k].ugly) = u].clean]

\* final_df[clean_name]: the column renamed to the canonical name
final_df(ds, clean_name) ==
    LET cm == check_column_map(ds)
    IN  values(ds, CHOOSE u \in DOMAIN cm : cm[u] = clean_name)

\* series.isnull().all()
isnull_all(col) == \A i \in 1..Len(col) : isnan(col[i])

\* Mutant of std_is_zero: a column of equal values counts whatever its length.
std_is_zero_any_length(col) ==
    \A i, j \in {k \in 1..Len(col) : ~isnan(col[k])} : col[i] = col[j]

\* series.std() == 0: the sample standard deviation leaves the NaN entries
\* out and is NaN, hence not 0, with fewer than two values left
std_is_zero(col) ==
    LET present == {k \in 1..Len(col) : ~isnan(col[k])}
    IN  /\ Cardinality(present) >= 2
        /\ \A i, j \in present : col[i] = col[j]

\* The checks made on an opened file, in their order; "valid" when none of
\* them flags the file.
quality_check(ds) ==
    IF Cardinality(DOMAIN check_column_map(ds)) # 3 THEN "failed"
    ELSE IF Len(final_df(ds, "temperature")) = 0 THEN "empty"
    ELSE IF /\ isnull_all(final_df(ds, "temperature"))
            /\ isnull_all(final_df(ds, "salinity"))
    THEN "all_null"
    ELSE IF /\ std_is_zero(final_df(ds, "temperature"))
            /\ std_is_zero(final_df(ds, "pressure"))
    THEN "identical"
    ELSE "valid"

\* dataset = xr.open_dataset(file_path): the file is opened, then the name is
\* bound to it; the dataset the name was bound to stays open, unreferenced.
\* When open_dataset raises, the name keeps its binding and the except clause
\* flags the file.
OpenBare ==
    /\ script = "data_quality_checker"
    /\ scan_pc = "loop"
    /\ scan_pos <= Len(scan_list)
    /\ LET file_path == scan_list[scan_pos]
       IN  IF opens(file_path)
           THEN /\ open_files' = open_files \cup {file_path}
                /\ dataset' = file_path
                /\ scan_pc' = "opened"
                /\ scan_pos' = scan_pos
                /\ flagged_files' = flagged_files
           ELSE /\ UNCHANGED <<open_files, dataset, scan_pc>>
                /\ scan_pos' = scan_pos + 1
                /\ flagged_files' =
                      Append(flagged_files,
                             [filename |-> basename(file_path), reason |-> "failed"])
    /\ UNCHANGED <<db_password, root_exists, tree, prev, services, etl, script,
                   all_files_attributes, report>>

\* Mutant of BodyBare: the checker loads the frame of a valid file into
\* argo_profiles.
BodyBare_Loads ==
    /\ script = "data_quality_checker"
    /\ scan_pc = "opened"
    /\ LET reason == quality_check(dataset_at(dataset))
       IN  /\ flagged_files' =
                 IF reason = "valid" THEN flagged_files
                 ELSE Append(flagged_files,
                             [filename |-> basename(dataset), reason |-> reason])
           /\ table' = IF reason = "valid" THEN Append(table, OldRow) ELSE table
    /\ scan_pc' = "loop"
    /\ scan_pos' = scan_pos + 1
    /\ UNCHANGED <<db_password, root_exists, tree, prev, services, table_exists, pc,
                   nc_files_to_process, idx, total_rows_loaded, log, truncates,
                   results, script, dataset, open_files, all_files_attributes,
                   report>>

\* The rest of the iteration, ended by continue, by the except clause or at
\* the end of the try block: the file is flagged with the first check it
\* fails, and nothing closes the dataset.
BodyBare ==
    /\ script = "data_quality_checker"
    /\ scan_pc = "opened"
    /\ LET reason == quality_check(dataset_at(dataset))
       IN  flagged_files' =
               IF reason = "valid" THEN flagged_files
               ELSE Append(flagged_files,
                           [filename |-> basename(dataset), reason |-> reason])
    /\ scan_pc' = "loop"
    /\ scan_pos' = scan_pos + 1
    /\ UNCHANGED <<db_password, root_exists, tree, prev, services, etl, script, dataset,
                   open_files, all_files_attributes, report>>

\* The interpreter may finalize a dataset no name is bound to, which closes
\* its file; when it does is up to the runtime.
Finalize ==
    /\ \E file_path \in open_files :
          /\ file_path # dataset
          /\ open_files' = open_files \ {file_path}
    /\ UNCHANGED <<db_password, root_exists, tree, prev, services, etl, script, scan_pc,
                   scan_pos, dataset, diag>>

\* The for loop of main() or of the checker is over; the report that
\* follows opens and closes nothing.
ScanEnd ==
    /\ script # "attribute_inspector"
    /\ scan_pc = "loop"
    /\ scan_pos > Len(scan_list)
    /\ scan_pc' = "ended"
    /\ UNCHANGED <<db_password, root_exists, tree, prev, services, etl, script, scan_pos,
                   dataset, open_files, diag>>

\* the entries whose attributes differ from the base, in dict order, each
\* with base_attributes - file_attributes and file_attributes - base_attributes
RECURSIVE details(_, _)
details(d, base_attributes) ==
    IF d = <<>> THEN <<>>
    ELSE IF Head(d).attributes # base_attributes
    THEN <<[filename |-> Head(d).filename,
            missing_vars |-> base_attributes \ Head(d).attributes,
            extra_vars |-> Head(d).attributes \ base_attributes]>>
         \o details(Tail(d), base_attributes)
    ELSE details(Tail(d), base_attributes)

\* The inspector after its scan loop: exit() when nothing was read, else the
\* count of scanned files, the base set of the first key and the details of
\* the inconsistent files.
Analyze ==
    /\ script = "attribute_inspector"
    /\ scan_pc = "loop"
    /\ scan_pos > Len(scan_list)
    /\ scan_pc' = "ended"
    /\ report' =
          IF all_files_attributes = <<>> THEN NoReport
          ELSE [scanned |-> Len(all_files_attributes),
                first_file_name |-> all_files_attributes[1].filename,
                base_attributes |-> all_files_attributes[1].attributes,
                inconsistent_files |->
                    details(all_files_attributes,
                            all_files_attributes[1].attributes)]
    /\ UNCHANGED <<db_password, root_exists, tree, prev, services, etl, script, scan_pos,
                   dataset, open_files, all_files_attributes, flagged_files>>

NextFiles ==
    \/ ScanDiscover
    \/ OpenScoped
    \/ ExitScoped
    \/ OpenBare
    \/ BodyBare
    \/ Finalize
    \/ ScanEnd
    \/ Analyze

SpecFiles == InitFiles /\ [][NextFiles]_vars

\* ---------------------------------------------------------------- passes, then the ETL
\* A diagnostic script is run, or not, and the ETL script after it, on the
\* same folder and the same database.
DiagScripts == {"attribute_inspector", "data_quality_checker"}

InitPipeline ==
    /\ db_password = TRUE
    /\ root_exists = TRUE
    /\ tree \in UNION {TreesFrom(SmallCatalogue, k) : k \in 0..MaxFiles}
    /\ \/ table_exists = FALSE /\ table = <<>>
       \/ table_exists = TRUE /\ table = <<OldRow>>
    /\ pc = "config"
    /\ nc_files_to_process = <<>>
    /\ idx = 0
    /\ total_rows_loaded = 0
    /\ log = <<>>
    /\ truncates = <<>>
    /\ results = <<>>
    /\ prev = NoPrev
    /\ script \in DiagScripts
    /\ scan_pc = "start"
    /\ scan_pos = 0
    /\ dataset = NoPath
    /\ open_files = {}
    /\ all_files_attributes = <<>>
    /\ report = NoReport
    /\ flagged_files = <<>>
    /\ ServicesIdle

\* the diagnostic script runs while the ETL script has not been started
PassBefore == pc = "config"
\* the ETL script is started with the pass not run or over
PassOver == scan_pc \in {"start", "ended"}

NextPipeline ==
    \/ PassBefore /\ ScanDiscover
    \/ PassBefore /\ OpenScoped
    \/ PassBefore /\ ExitScoped
    \/ PassBefore /\ OpenBare
    \/ PassBefore /\ BodyBare
    \/ PassBefore /\ Finalize
    \/ PassBefore /\ ScanEnd
    \/ PassBefore /\ Analyze
    \/ PassOver /\ LoadConfig
    \/ PassOver /\ CreateEngine
    \/ PassOver /\ Truncate
    \/ PassOver /\ Discover
    \/ PassOver /\ CallMain
    \/ PassOver /\ ProcessFile
    \/ PassOver /\ Summary

SpecPipeline == InitPipeline /\ [][NextPipeline]_vars

\* ---------------------------------------------------------------- run_ai_pipeline
\* ai_core/main_agent.py: calls of run_ai_pipeline, one after the other, on
\* the module's cached components.
Questions == {"salinity near the equator", "hello"}

\* An exception, by what _diagnose_exception looks for in str(exc).lower().
Exc(provider, invalid_key) == [provider |-> provider, invalid_key |-> invalid_key]
Excs == {Exc(p, k) : p \in BOOLEAN, k \in BOOLEAN}

\* The ConfigErrors of _initialise_components and of the _get_ functions.
ConfigErrors ==
    {"GOOGLE_API_KEY is not configured", "Database credentials are missing",
     "Unable to connect to PostgreSQL", "FAISS index not found",
     "Failed to load FAISS index"}

\* _build_conversational_messages(response, variant, title)
conversational_messages(variant, title) ==
    <<[role |-> "assistant", type |-> variant, title |-> title]>>

\* _build_data_messages: the summary and the SQL message
data_messages ==
    <<[role |-> "assistant", type |-> "summary", title |-> "Result overview"],
      [role |-> "assistant", type |-> "sql", title |-> "SQL executed"]>>

\* _diagnose_exception(exc)["metadata"]
diagnose_metadata(exc) ==
    IF exc.provider
    THEN [category |-> "provider_internal_error",
          provider |-> "google-generative-ai", status_code |-> 500]
    ELSE IF exc.invalid_key
    THEN [category |-> "credential_error", provider |-> "google-generative-ai"]
    ELSE [category |-> "unexpected_error"]

\* {"intent": "error", "question": question, **error_metadata}: the keys of
\* error_metadata come last and replace equal keys
error_metadata_dict(q, error_metadata) ==
    [k \in {"intent", "question"} \cup DOMAIN error_metadata |->
        IF k \in DOMAIN error_metadata THEN error_metadata[k]
        ELSE IF k = "intent" THEN "error" ELSE q]

\* the dict returned by the handler of ConfigError
config_error_answer(q, error_text) ==
    [sql_query |-> Str("Configuration error."),
     result_data |-> NoneValue,
     messages |-> conversational_messages("error", "Configuration issue"),
     metadata |-> [intent |-> "error", question |-> q,
                   category |-> "configuration_error"],
     error |-> Str(error_text)]

\* Mutant of exception_answer: the rows read before the failure are returned.
exception_answer_with_data(q, exc) ==
    [sql_query |-> Str("Error generating query."),
     result_data |-> List(<<>>),
     messages |-> conversational_messages("error", "Service issue"),
     metadata |-> error_metadata_dict(q, diagnose_metadata(exc)),
     error |-> Str("exc")]

\* the dict returned by the handler of Exception
exception_answer(q, exc) ==
    [sql_query |-> Str("Error generating query."),
     result_data |-> NoneValue,
     messages |-> conversational_messages("error", "Service issue"),
     metadata |-> error_metadata_dict(q, diagnose_metadata(exc)),
     error |-> Str("exc")]

\* The caller calls run_ai_pipeline(question).
Ask ==
    /\ agent_pc = "idle"
    /\ calls < MaxCalls
    /\ question' \in Questions
    /\ agent_pc' = "init"
    /\ answer' = NoneValue
    /\ failure' = "none"
    /\ generated_sql' = ""
    /\ calls' = calls + 1
    /\ UNCHANGED <<db_password, root_exists, tree, prev, etl, handles, diag,
                   components, sockets>>

\* initialize_ai_core() and the check of the four components: nothing is done
\* when they are cached; else _initialise_components sets all four, or raises
\* a ConfigError or another exception and sets none.
InitializeCore ==
    /\ agent_pc = "init"
    /\ \/ /\ components
          /\ agent_pc' = "route"
          /\ UNCHANGED <<components, answer, failure>>
       \/ /\ ~components
          /\ components' = TRUE
          /\ agent_pc' = "route"
          /\ UNCHANGED <<answer, failure>>
       \/ /\ ~components
          /\ \E config_error \in ConfigErrors :
                answer' = config_error_answer(question, config_error)
          /\ failure' = "config"
          /\ agent_pc' = "returned"
          /\ UNCHANGED components
       \/ /\ ~components
          /\ \E exc \in Excs : answer' = exception_answer(question, exc)
          /\ failure' = "exception"
          /\ agent_pc' = "returned"
          /\ UNCHANGED components
    /\ UNCHANGED <<db_password, root_exists, tree, prev, etl, handles, diag,
                   question, generated_sql, calls, sockets>>

\* what the router model may answer, and the test "data_query" in intent
Intents == {"data_query", "intent: data_query", "conversational", "unsure"}
is_data_query(intent) == intent \in {"data_query", "intent: data_query"}

\* local_llm.invoke(router_prompt) and the branch on the intent
Route ==
    /\ agent_pc = "route"
    /\ \/ \E intent \in Intents :
             /\ agent_pc' = IF is_data_query(intent) THEN "rag" ELSE "converse"
             /\ UNCHANGED <<answer, failure>>
       \/ /\ \E exc \in Excs : answer' = exception_answer(question, exc)
          /\ failure' = "exception"
          /\ agent_pc' = "returned"
    /\ UNCHANGED <<db_password, root_exists, tree, prev, etl, handles, diag,
                   components, question, generated_sql, calls, sockets>>

\* What the RAG chain may return, as the pieces of its text: a code fence
\* that opens with the word sql, a closing fence, the query.
RagOutputs ==
    {<<>>, <<"fence sql", "fence">>, <<"SELECT">>, <<"fence sql", "SELECT", "fence">>}
\* the two replace calls that delete the opening and the closing code fence,
\* then strip()
IsCode(piece) == piece \notin {"fence sql", "fence"}
strip_fences(out) == SelectSeq(out, IsCode)

\* local_rag_chain.invoke(question) and the check of the query
GenerateSql ==
    /\ agent_pc = "rag"
    /\ \/ \E out \in RagOutputs :
             IF strip_fences(out) = <<>>
             THEN /\ answer' = exception_answer(question, Exc(FALSE, FALSE))
                  /\ failure' = "exception"
                  /\ agent_pc' = "returned"
                  /\ UNCHANGED generated_sql
             ELSE /\ generated_sql' = strip_fences(out)[1]
                  /\ agent_pc' = "execute"
                  /\ UNCHANGED <<answer, failure>>
       \/ /\ \E exc \in Excs : answer' = exception_answer(question, exc)
          /\ failure' = "exception"
          /\ agent_pc' = "returned"
          /\ UNCHANGED generated_sql
    /\ UNCHANGED <<db_password, root_exists, tree, prev, etl, handles, diag,
                   components, question, calls, sockets>>

\* The rows a query may return: float_id 0 is a value Python takes as false.
QueryRows ==
    {<<>>,
     <<[float_id |-> 100]>>,
     <<[float_id |-> 0], [float_id |-> 100]>>,
     <<[temperature |-> 5]>>}

\* the value of sample_float after the loop over the records
RECURSIVE sample_float_id(_, _)
sample_float_id(records, sample_float) ==
    IF records = <<>> THEN sample_float
    ELSE IF "float_id" \notin DOMAIN Head(records)
    THEN sample_float_id(Tail(records), NoneValue)
    ELSE IF Head(records).float_id # 0 THEN [type |-> "int", value |-> Head(records).float_id]
    ELSE sample_float_id(Tail(records), [type |-> "int", value |-> 0])

\* the dict returned on the data-query path
data_answer(q, sql, rows) ==
    [sql_query |-> Str(sql),
     result_data |-> List(rows),
     messages |-> data_messages,
     metadata |-> [intent |-> "data_query", row_count |-> Len(rows),
                   columns |-> IF rows = <<>> THEN {} ELSE DOMAIN rows[1],
                   sample_float_id |-> sample_float_id(rows, NoneValue),
                   question |-> q],
     error |-> NoneValue]

\* connection.execute(text(generated_sql)) and the rest of the data branch
ExecuteSql ==
    /\ agent_pc = "execute"
    /\ \/ /\ \E rows \in QueryRows :
                answer' = data_answer(question, generated_sql, rows)
          /\ UNCHANGED failure
       \/ /\ \E exc \in Excs : answer' = exception_answer(question, exc)
          /\ failure' = "exception"
    /\ agent_pc' = "returned"
    /\ UNCHANGED <<db_password, root_exists, tree, prev, etl, handles, diag,
                   components, question, generated_sql, calls, sockets>>

\* the dict returned on the conversational path
conversational_answer(q) ==
    [sql_query |-> NoneValue,
     result_data |-> Str("response_text"),
     messages |-> conversational_messages("conversation", "Response"),
     metadata |-> [intent |-> "conversational", question |-> q],
     error |-> NoneValue]

\* local_conversation_chain.invoke({"question": question})
Converse ==
    /\ agent_pc = "converse"
    /\ \/ /\ answer' = conversational_answer(question)
          /\ UNCHANGED failure
       \/ /\ \E exc \in Excs : answer' = exception_answer(question, exc)
          /\ failure' = "exception"
    /\ agent_pc' = "returned"
    /\ UNCHANGED <<db_password, root_exists, tree, prev, etl, handles, diag,
                   components, question, generated_sql, calls, sockets>>

\* The caller has the answer and may ask again.
Answered ==
    /\ agent_pc = "returned"
    /\ agent_pc' = "idle"
    /\ UNCHANGED <<db_password, root_exists, tree, prev, etl, handles, diag,
                   components, question, generated_sql, answer, failure, calls,
                   sockets>>

InitAgent ==
    /\ Init
    /\ tree = <<>>
    /\ db_password = TRUE
    /\ root_exists = TRUE
    /\ table_exists = TRUE

NextAgent ==
    \/ Ask
    \/ InitializeCore
    \/ Route
    \/ GenerateSql
    \/ ExecuteSql
    \/ Converse
    \/ Answered

SpecAgent == InitAgent /\ [][NextAgent]_vars

\* ---------------------------------------------------------------- websockets
\* api_server.py: the handlers of the /ws endpoint and broadcasts, which run
\* on one event loop and interleave at their awaits.

\* connected_websockets.remove(ws): the first occurrence is deleted
RECURSIVE list_remove(_, _)
list_remove(list, ws) ==
    IF list = <<>> THEN <<>>
    ELSE IF Head(list) = ws THEN Tail(list)
    ELSE <<Head(list)>> \o list_remove(Tail(list), ws)

\* if ws in connected_websockets: connected_websockets.remove(ws)
remove_if_present(list, ws) ==
    IF \E i \in DOMAIN list : list[i] = ws THEN list_remove(list, ws) ELSE list

\* the finally of websocket_endpoint; a broadcast in progress notes that the
\* socket did not stay registered
handler_ends(ws) ==
    /\ connected_websockets' = remove_if_present(connected_websockets, ws)
    /\ handler' = [handler EXCEPT ![ws] = "ended"]
    /\ broadcast' = [broadcast EXCEPT !.stayed = @ \ {ws}]

\* await websocket.accept(), then connected_websockets.append(websocket)
Accept(ws) ==
    /\ handler[ws] = "new"
    /\ \/ /\ connected_websockets' = Append(connected_websockets, ws)
          /\ handler' = [handler EXCEPT ![ws] = "welcome"]
       \/ /\ handler' = [handler EXCEPT ![ws] = "ended"]
          /\ UNCHANGED connected_websockets
    /\ UNCHANGED <<db_password, root_exists, tree, prev, etl, handles, diag,
                   agent, broadcast>>

\* await websocket.send_json(connection message): an exception leaves the
\* endpoint through its finally
Welcome(ws) ==
    /\ handler[ws] = "welcome"
    /\ \/ /\ handler' = [handler EXCEPT ![ws] = "receiving"]
          /\ UNCHANGED <<connected_websockets, broadcast>>
       \/ handler_ends(ws)
    /\ UNCHANGED <<db_password, root_exists, tree, prev, etl, handles, diag, agent>>

\* data = await websocket.receive_json(): a disconnect or an error breaks the loop
Receive(ws) ==
    /\ handler[ws] = "receiving"
    /\ \/ /\ handler' = [handler EXCEPT ![ws] = "echo"]
          /\ UNCHANGED <<connected_websockets, broadcast>>
       \/ handler_ends(ws)
    /\ UNCHANGED <<db_password, root_exists, tree, prev, etl, handles, diag, agent>>

\* await websocket.send_json(echo)
Echo(ws) ==
    /\ handler[ws] = "echo"
    /\ \/ /\ handler' = [handler EXCEPT ![ws] = "receiving"]
          /\ UNCHANGED <<connected_websockets, broadcast>>
       \/ handler_ends(ws)
    /\ UNCHANGED <<db_password, root_exists, tree, prev, etl, handles, diag, agent>>

\* for ws in connected_websockets: the list iterator keeps an index into the
\* list itself and ends when the index reaches the list's current length
list_next(b, list) ==
    IF b.index < Len(list)
    THEN [b EXCEPT !.index = @ + 1, !.ws = list[b.index + 1],
                   !.attempted = @ \cup {list[b.index + 1]}]
    ELSE [b EXCEPT !.pc = "remove"]

\* the loop over disconnected that ends broadcast_to_websockets
RECURSIVE remove_disconnected(_, _)
remove_disconnected(list, disconnected) ==
    IF disconnected = <<>> THEN list
    ELSE remove_disconnected(remove_if_present(list, Head(disconnected)),
                             Tail(disconnected))

\* the sockets of disconnected that were in the list and were removed
removed_by_broadcast(list, disconnected) ==
    {disconnected[i] : i \in DOMAIN disconnected} \cap {list[i] : i \in DOMAIN list}

\* from the iterator's answer to the next await, or to the return
broadcast_continue(b, list) ==
    IF list_next(b, list).pc = "remove"
    THEN /\ connected_websockets' = remove_disconnected(list, b.disconnected)
         /\ broadcast' = [b EXCEPT !.pc = "done",
                                   !.removed = removed_by_broadcast(list, b.disconnected)]
    ELSE /\ broadcast' = list_next(b, list)
         /\ UNCHANGED connected_websockets

\* chat_endpoint calls broadcast_to_websockets when the list is not empty:
\* the call runs to the first await ws.send_json(message)
BroadcastStart ==
    /\ broadcast.pc = "idle"
    /\ connected_websockets # <<>>
    /\ broadcast_continue([NoBroadcast EXCEPT
                               !.pc = "sending",
                               !.stayed = {connected_websockets[i] :
                                              i \in DOMAIN connected_websockets}],
                          connected_websockets)
    /\ UNCHANGED <<db_password, root_exists, tree, prev, etl, handles, diag,
                   agent, handler>>

\* await ws.send_json(message) returns or raises; the loop goes on to the
\* next await or to the removal of the disconnected sockets
BroadcastSend ==
    /\ broadcast.pc = "sending"
    /\ \/ broadcast_continue(broadcast, connected_websockets)
       \/ broadcast_continue([broadcast EXCEPT
                                  !.disconnected = Append(@, broadcast.ws),
                                  !.failed = @ \cup {broadcast.ws}],
                             connected_websockets)
    /\ UNCHANGED <<db_password, root_exists, tree, prev, etl, handles, diag,
                   agent, handler>>

\* chat_endpoint returns its response; a later request may broadcast again
BroadcastReturn ==
    /\ broadcast.pc = "done"
    /\ broadcast' = NoBroadcast
    /\ UNCHANGED <<db_password, root_exists, tree, prev, etl, handles, diag,
                   agent, connected_websockets, handler>>

InitSockets ==
    /\ Init
    /\ tree = <<>>
    /\ db_password = TRUE
    /\ root_exists = TRUE
    /\ table_exists = TRUE

NextSockets ==
    \/ \E ws \in Sockets : Accept(ws)
    \/ \E ws \in Sockets : Welcome(ws)
    \/ \E ws \in Sockets : Receive(ws)
    \/ \E ws \in Sockets : Echo(ws)
    \/ BroadcastStart
    \/ BroadcastSend
    \/ BroadcastReturn

SpecSockets == InitSockets /\ [][NextSockets]_vars

\* ================================================================ claims
\* helpers of the formulas below
ds_of(k) == dataset_at(results[k].file)
HasMsg(out, kind) == \E m \in DOMAIN out.msgs : out.msgs[m].kind = kind
IsFailure(out) == \E m \in DOMAIN out.msgs : out.msgs[m].level = "error"
NoFilesExit ==
    /\ pc = "exited"
    /\ log # <<>>
    /\ log[Len(log)].kind = "no_files"

\* ---------------------------------------------------------------- C1
\* C1: when discovery finds no matching file, the run ends after reporting
\* that no files were found and no TRUNCATE of argo_profiles was executed at
\* any point of that run.
C1_NoFilesNoTruncate ==
    NoFilesExit => \A i \in DOMAIN truncates : ~truncates[i]

\* ---------------------------------------------------------------- C2
\* C2: in every run that gets past configuration the truncate is attempted
\* exactly once and before the first per-file append: nothing is appended
\* before the attempt and no attempt follows an append.
C2_TruncateOnceBeforeAppends ==
    /\ Len(truncates) <= 1
    /\ (pc \in {"config", "engine", "truncate"} => truncates = <<>> /\ results = <<>>)
    /\ (pc \in {"discover", "loaded", "loop", "done"} => Len(truncates) = 1)
    /\ (results # <<>> => Len(truncates) = 1)

C2_Witness ==
    /\ pc = "done"
    /\ truncates = <<TRUE>>
    /\ \E k \in DOMAIN results : results[k].out.rows # <<>>

\* ---------------------------------------------------------------- C3
\* C3: a run that discovers at least one file eventually processes every
\* discovered file exactly once, in order, and then prints the final summary
\* with the total number of rows loaded.
C3_EventuallySummary ==
    (pc = "loaded") ~>
        (/\ pc = "done"
         /\ Len(results) = Len(nc_files_to_process)
         /\ log[Len(log)].kind = "summary"
         /\ log[Len(log)].n = total_rows_loaded)

\* ---------------------------------------------------------------- C4
\* C4: whatever failure occurs while one file is processed,
\* process_profile_file returns 0 and appends nothing instead of raising,
\* and every later file of the list is still processed, in list order.
C4_FailureIsolated ==
    /\ \A k \in DOMAIN results :
          /\ results[k].file = nc_files_to_process[k]
          /\ IsFailure(results[k].out) =>
                results[k].out.ret = 0 /\ results[k].out.rows = <<>>
    /\ (results # <<>> => pc \in {"loop", "done"})
    /\ (pc = "loop" => Len(results) = idx - 1)
    /\ (pc = "done" => Len(results) = Len(nc_files_to_process))

C4_Witness ==
    /\ pc = "done"
    /\ Len(results) = 2
    /\ IsFailure(results[1].out)
    /\ results[2].out.ret > 0

\* ---------------------------------------------------------------- C5
\* the aliases of the k-th canonical field that the file holds
present_aliases(ds, k) ==
    {a \in 1..Len(potential_names[k].ugly) : has(ds, potential_names[k].ugly[a])}
MissingField(ds) ==
    \E k \in 1..Len(potential_names) : present_aliases(ds, k) = {}

\* C5: a readable file in which one of the six canonical fields matches none
\* of its aliases contributes no row, is reported with its file name and a
\* missing-variable reason, and the batch goes on to the next file.
C5_MissingVariableSkipped ==
    \A k \in DOMAIN results :
        (ds_of(k).status = "ok" /\ MissingField(ds_of(k))) =>
            /\ results[k].out.ret = 0
            /\ results[k].out.rows = <<>>
            /\ results[k].out.msgs =
                  <<Msg("error", "missing_variable", results[k].file, "path", 0)>>
            /\ results[k].file.name = ds_of(k).name
            /\ pc \in {"loop", "done"}
            /\ (pc = "loop" => idx > k)

C5_Witness ==
    /\ pc = "done"
    /\ truncates = <<TRUE>>
    /\ Len(results) = 2
    /\ ds_of(1).status = "ok"
    /\ ~has(ds_of(1), "PSAL_ADJUSTED") /\ ~has(ds_of(1), "psal_adjusted")
    /\ HasMsg(results[1].out, "missing_variable")
    /\ results[2].out.ret > 0
    /\ table = results[2].out.rows

\* ---------------------------------------------------------------- C6
\* a holds under the lowercase names exactly the arrays b holds under the
\* uppercase names, and both files have the same name
SpellingTwins(a, b) ==
    /\ a.name = b.name
    /\ a.status = "ok" /\ b.status = "ok"
    /\ DOMAIN a.vars = {potential_names[k].ugly[1] : k \in 1..Len(potential_names)}
    /\ DOMAIN b.vars = {potential_names[k].ugly[2] : k \in 1..Len(potential_names)}
    /\ \A k \in 1..Len(potential_names) :
          a.vars[potential_names[k].ugly[1]] = b.vars[potential_names[k].ugly[2]]

\* C6: two files with the same file name and identical arrays whose variable
\* names differ only in spelling (all lowercase, all uppercase) produce the
\* same persisted records.
C6_SpellingIndependent ==
    \A j, k \in DOMAIN results :
        (/\ SpellingTwins(ds_of(j), ds_of(k))
         /\ ~HasMsg(results[j].out, "insert_failed")
         /\ ~HasMsg(results[k].out, "insert_failed")) =>
            results[j].out.rows = results[k].out.rows

\* ---------------------------------------------------------------- C7
Min(S) == CHOOSE x \in S : \A y \in S : x <= y
RawNames == {"PRES", "TEMP", "PSAL", "pres", "temp", "psal"}

\* C7: reconciliation maps each canonical field to the first alias of its
\* priority list that the file holds and to no other; a file is accepted
\* exactly when every field has an alias present, in lowercase or uppercase
\* spelling; a raw variant is never chosen over the adjusted one.
C7_FirstAliasChosen ==
    \A r \in DOMAIN results :
        ds_of(r).status = "ok" =>
            LET ds == ds_of(r)
                cm == column_map(ds)
            IN  /\ \A k \in 1..Len(potential_names) :
                      LET ugly == potential_names[k].ugly
                          here == present_aliases(ds, k)
                      IN  \A a \in 1..Len(ugly) :
                              IF here # {} /\ a = Min(here)
                              THEN /\ ugly[a] \in DOMAIN cm
                                   /\ cm[ugly[a]] = potential_names[k].clean
                              ELSE ugly[a] \notin DOMAIN cm
                /\ DOMAIN cm \cap RawNames = {}
                /\ HasMsg(results[r].out, "missing_variable") <=> MissingField(ds)

C7_Witness ==
    /\ Len(results) = 2
    /\ has(ds_of(1), "TEMP") /\ has(ds_of(1), "TEMP_ADJUSTED")
    /\ "TEMP_ADJUSTED" \in DOMAIN column_map(ds_of(1))
    /\ results[1].out.ret > 0
    /\ has(ds_of(2), "temp_adjusted") /\ ~has(ds_of(2), "TEMP_ADJUSTED")
    /\ "temp_adjusted" \in DOMAIN column_map(ds_of(2))
    /\ ~HasMsg(results[2].out, "missing_variable")

\* ---------------------------------------------------------------- C8
\* C8: a readable file that carries pressure, temperature and salinity only
\* under their non-adjusted names, together with time and position, passes
\* reconciliation and is processed rather than rejected.
C8_RawOnlyAccepted ==
    \A k \in DOMAIN results :
        (/\ ds_of(k).status = "ok"
         /\ DOMAIN ds_of(k).vars =
               {"JULD", "LATITUDE", "LONGITUDE", "PRES", "TEMP", "PSAL"}) =>
            ~HasMsg(results[k].out, "missing_variable")

\* ---------------------------------------------------------------- C9
\* C9: in every reachable state no row of argo_profiles has a NaN or null
\* temperature or salinity, and every row a file added stems from an index at
\* which both values of the file are numbers.
C9_NoNaNRows ==
    /\ \A i \in DOMAIN table :
          /\ ~isnan(table[i].temperature) /\ table[i].temperature # None
          /\ ~isnan(table[i].salinity) /\ table[i].salinity # None
    /\ \A k \in DOMAIN results :
          \A r \in DOMAIN results[k].out.rows :
              \E i \in DOMAIN values(ds_of(k), "TEMP_ADJUSTED") :
                  /\ values(ds_of(k), "TEMP_ADJUSTED")[i] =
                        results[k].out.rows[r].temperature
                  /\ values(ds_of(k), "PSAL_ADJUSTED")[i] =
                        results[k].out.rows[r].salinity
                  /\ ~isnan(values(ds_of(k), "TEMP_ADJUSTED")[i])
                  /\ ~isnan(values(ds_of(k), "PSAL_ADJUSTED")[i])

C9_Witness ==
    \E k \in DOMAIN results :
        /\ results[k].out.rows # <<>>
        /\ \E i \in DOMAIN values(ds_of(k), "TEMP_ADJUSTED") :
              \/ isnan(values(ds_of(k), "TEMP_ADJUSTED")[i])
              \/ isnan(values(ds_of(k), "PSAL_ADJUSTED")[i])
        /\ \E i \in DOMAIN table : table[i] = results[k].out.rows[1]

\* ---------------------------------------------------------------- C10
\* the source variable reconciliation resolved for a canonical field
resolved(ds, clean) ==
    CHOOSE u \in DOMAIN column_map(ds) : column_map(ds)[u] = clean
\* the depth-level indices at which temperature and salinity are both numbers
valid_levels(ds) ==
    {i \in DOMAIN values(ds, resolved(ds, "pressure")) :
        /\ ~isnan(values(ds, resolved(ds, "temperature"))[i])
        /\ ~isnan(values(ds, resolved(ds, "salinity"))[i])}
six_fields(row) ==
    [profile_date |-> row.profile_date, latitude |-> row.latitude,
     longitude |-> row.longitude, pressure |-> row.pressure,
     temperature |-> row.temperature, salinity |-> row.salinity]
level_fields(ds, i) ==
    [c \in CleanNames |-> values(ds, resolved(ds, c))[i]]
same_lengths(ds) ==
    \A u, v \in DOMAIN column_map(ds) : Len(values(ds, u)) = Len(values(ds, v))

\* C10: a file that passes reconciliation (its six arrays of one length), has
\* a parseable name and whose insert succeeds adds one row per depth-level
\* index at which temperature and salinity are both numbers, each carrying
\* that index's values of the six fields.
C10_RowPerValidLevel ==
    \A k \in DOMAIN results :
        (/\ ds_of(k).status = "ok"
         /\ ~MissingField(ds_of(k))
         /\ same_lengths(ds_of(k))
         /\ int_ok(id_text(results[k].file))
         /\ ~HasMsg(results[k].out, "insert_failed")) =>
            /\ Len(results[k].out.rows) = Cardinality(valid_levels(ds_of(k)))
            /\ {six_fields(results[k].out.rows[r]) : r \in DOMAIN results[k].out.rows}
                  = {level_fields(ds_of(k), i) : i \in valid_levels(ds_of(k))}

\* The scenario of C10 holds: D100_prof.nc and R200_prof.nc, uppercase names,
\* five levels without NaN, truncate and inserts succeeding, give ten rows
\* with the float_id values 100 and 200.
ScenarioA_TenRows ==
    (/\ pc = "done"
     /\ truncates = <<TRUE>>
     /\ tree = <<File(root_data_folder, D100_prof_nc, "ok", Upper, FiveLevels),
                 File(sub_folder, R200_prof_nc, "ok", Upper, FiveLevels)>>
     /\ \A k \in DOMAIN results : ~HasMsg(results[k].out, "insert_failed")) =>
        /\ Len(table) = 10
        /\ {table[i].float_id : i \in DOMAIN table} = {100, 200}
        /\ total_rows_loaded = 10

\* ---------------------------------------------------------------- C11
SevenColumns ==
    {"float_id", "profile_date", "latitude", "longitude", "pressure",
     "temperature", "salinity"}

\* C11: every row handed to the bulk load has exactly the seven columns
\* float_id, profile_date, latitude, longitude, pressure, temperature,
\* salinity and no other column.
C11_SevenColumnsOnly ==
    \A k \in DOMAIN results :
        \A r \in DOMAIN results[k].out.rows :
            DOMAIN results[k].out.rows[r] = SevenColumns

\* ---------------------------------------------------------------- C13
\* what follows the leading mode character and precedes the first '_'
name_rest(file_path) == Tail(split_first(basename(file_path), "_"))

\* C13: the float identifier of a file is the integer formed by the digits
\* between the single leading mode character and the first segment marker; a
\* file whose remainder after the mode character is not purely numeric is
\* skipped with zero rows and a logged reason.
C13_FloatIdFromName ==
    \A k \in DOMAIN results :
        IF AllDigits(name_rest(results[k].file))
        THEN \A r \in DOMAIN results[k].out.rows :
                 results[k].out.rows[r].float_id =
                     DigitsVal(name_rest(results[k].file), 0)
        ELSE /\ results[k].out.rows = <<>>
             /\ results[k].out.ret = 0
             /\ results[k].out.msgs # <<>>

\* ---------------------------------------------------------------- C14
\* the rows appended so far by this run, in the order of their insertion
RECURSIVE concat_rows(_)
concat_rows(rs) ==
    IF rs = <<>> THEN <<>> ELSE Head(rs).out.rows \o concat_rows(Tail(rs))
RunRows == concat_rows(results)

\* C14: each float_id present in the rows appended by the run is the integer
\* prefix parsed from the name of one of the discovered input files.
C14_FloatIdsFromInputNames ==
    \A i \in DOMAIN RunRows :
        \E j \in DOMAIN nc_files_to_process :
            /\ AllDigits(name_rest(nc_files_to_process[j]))
            /\ RunRows[i].float_id = DigitsVal(name_rest(nc_files_to_process[j]), 0)

\* ---------------------------------------------------------------- C15
UpperNames == {potential_names[k].ugly[2] : k \in 1..Len(potential_names)}

\* C15: a file that passes reconciliation but whose rows are all removed by
\* the NaN filter contributes zero rows and is reported as an informational
\* condition, not as a warning or an error.
C15_AllFilteredIsInfo ==
    \A k \in DOMAIN results :
        (/\ ds_of(k).status = "ok"
         /\ ~MissingField(ds_of(k))
         /\ DOMAIN column_map(ds_of(k)) = UpperNames
         /\ same_lengths(ds_of(k))
         /\ valid_levels(ds_of(k)) = {}) =>
            /\ results[k].out.ret = 0
            /\ results[k].out.rows = <<>>
            /\ \A m \in DOMAIN results[k].out.msgs :
                  results[k].out.msgs[m].level = "info"

\* ---------------------------------------------------------------- C16
\* C16: when the insert of one file's batch fails, that file counts 0 rows,
\* the table keeps the rows persisted before unchanged, the running total is
\* unchanged and the loop goes on to the next file.
C16_InsertFailureKeepsTable ==
    [][(/\ Len(results') = Len(results) + 1
        /\ HasMsg(results'[Len(results')].out, "insert_failed")) =>
           /\ results'[Len(results')].out.ret = 0
           /\ table' = table
           /\ total_rows_loaded' = total_rows_loaded
           /\ pc' = "loop"
           /\ idx' = idx + 1]_vars

C16_Witness ==
    /\ Len(results) = 2
    /\ results[1].out.ret > 0
    /\ HasMsg(results[2].out, "insert_failed")
    /\ truncates = <<TRUE>>
    /\ table = results[1].out.rows
    /\ total_rows_loaded = results[1].out.ret

\* ---------------------------------------------------------------- C17
\* C17: when the database password is not configured, or the engine cannot
\* be created, the run ends before the truncate, before discovery and before
\* any source file is opened.
C17_ConfigFailureAbortsEarly ==
    /\ (~db_password => pc \in {"config", "aborted"})
    /\ (pc = "aborted" =>
           /\ ~db_password
           /\ truncates = <<>> /\ nc_files_to_process = <<>> /\ results = <<>>)
    /\ ((pc = "exited" /\ log[Len(log)].kind = "engine_failed") =>
           truncates = <<>> /\ nc_files_to_process = <<>> /\ results = <<>>)

C17_Witness ==
    /\ pc = "aborted"
    /\ table = <<OldRow>>
    /\ tree # <<>>

\* ---------------------------------------------------------------- C18
\* the last Len(RunRows) rows of the table
TableTail ==
    SubSeq(table, Len(table) - Len(RunRows) + 1, Len(table))

SameCompleteRuns ==
    /\ prev.ran
    /\ tree = prev.tree
    /\ pc = "done" /\ prev.pc = "done"
    /\ prev.truncates = <<TRUE>>
    /\ FailedInserts = {} /\ prev.failed = {}

Count(s, r) == Cardinality({i \in DOMAIN s : s[i] = r})
\* the same rows with the same multiplicities
SameBag(s, t) ==
    /\ Len(s) = Len(t)
    /\ \A i \in DOMAIN s : Count(s, s[i]) = Count(t, s[i])

\* C19: two complete runs over the same files listed in any two orders, on a
\* cleared table and with the same inserts failing, leave the same multiset of
\* rows in the table and report the same total.
C19_OrderIndependent ==
    ( /\ prev.ran
      /\ pc = "done" /\ prev.pc = "done"
      /\ truncates = <<TRUE>> /\ prev.truncates = <<TRUE>>
      /\ FailedInserts = prev.failed )
    => /\ SameBag(table, prev.table)
       /\ total_rows_loaded = prev.total

\* two files that both load rows were processed in the two orders
C19_Witness ==
    /\ prev.ran
    /\ pc = "done" /\ prev.pc = "done"
    /\ truncates = <<TRUE>> /\ prev.truncates = <<TRUE>>
    /\ FailedInserts = {} /\ prev.failed = {}
    /\ tree # prev.tree
    /\ table # prev.table
    /\ SameBag(table, prev.table)
    /\ \A k \in DOMAIN results : results[k].out.ret > 0
    /\ Len(results) >= 2

\* ---------------------------------------------------------------- C20
\* C20: in each of the three per-file loops at most one file is open at any
\* time, and none is open once the loop is over.
C20_OneFileOpen ==
    /\ Cardinality(open_files) <= 1
    /\ (scan_pc = "ended" => open_files = {})

\* The loops that open their files in a with statement keep to it.
ScopedScriptsCloseFiles ==
    script \in ScopedScripts =>
        /\ Cardinality(open_files) <= 1
        /\ (scan_pc # "opened" => open_files = {})

\* ---------------------------------------------------------------- C21
Range(s) == {s[i] : i \in DOMAIN s}
NoDup(s) == \A i, j \in DOMAIN s : i # j => s[i] # s[j]

\* the entries whose name ends in .nc and starts with D or R
ProfileEntries ==
    {i \in DOMAIN tree :
        LET n == tree[i].name
        IN  /\ Len(n) >= 3
            /\ <<n[Len(n) - 2], n[Len(n) - 1], n[Len(n)]>> = <<".", "n", "c">>
            /\ n[1] \in {"D", "R"}}
ProfilePaths == {[dir |-> tree[i].dir, name |-> tree[i].name] : i \in ProfileEntries}

\* the ETL's discovery has run
Discovered == pc \in {"loaded", "loop", "done"} \/ NoFilesExit

\* C21: the list each script discovers holds exactly the paths, in the root
\* folder or below it, of the entries named D*.nc or R*.nc, each once; the
\* three scripts find the same set.
C21_DiscoveryExact ==
    /\ Discovered =>
          /\ Range(nc_files_to_process) = ProfilePaths
          /\ NoDup(nc_files_to_process)
    /\ Range(nc_files_to_inspect(tree)) = ProfilePaths
    /\ NoDup(nc_files_to_inspect(tree))
    /\ Range(nc_files_to_check(tree)) = ProfilePaths
    /\ NoDup(nc_files_to_check(tree))

\* a file of the sub-folder was found and an entry of the root was passed over
C21_Witness ==
    /\ pc = "loaded"
    /\ \E p \in Range(nc_files_to_process) : p.dir = sub_folder
    /\ \E i \in DOMAIN tree :
          /\ tree[i].dir = root_data_folder
          /\ path_join(tree[i].dir, tree[i].name) \notin Range(nc_files_to_process)
    /\ Range(nc_files_to_inspect(tree)) = Range(nc_files_to_process)

\* ---------------------------------------------------------------- C28
\* the inspector is through its three phases
InspectorEnded == script = "attribute_inspector" /\ scan_pc = "ended"

\* the discovered files that open without error, in discovery order
IsReadable(file_path) == dataset_at(file_path).status = "ok"
readable == SelectSeq(nc_files_to_inspect(tree), IsReadable)

\* no two discovered files share a base name
DistinctNames ==
    \A k1, k2 \in DOMAIN nc_files_to_inspect(tree) :
        k1 # k2 => nc_files_to_inspect(tree)[k1].name # nc_files_to_inspect(tree)[k2].name

\* every file read has an entry under its name that holds its own variables
OwnEntries ==
    \A k \in DOMAIN readable :
        \E e \in DOMAIN all_files_attributes :
            /\ all_files_attributes[e].filename = readable[k].name
            /\ all_files_attributes[e].attributes = DOMAIN dataset_at(readable[k]).vars

\* C28: after the scan the inspector holds one entry per file it read, the
\* count it prints is the number of files read, and each entry holds the
\* variable set of its own file, also for files of different folders that
\* share a name.
C28_OneEntryPerReadFile ==
    InspectorEnded =>
        /\ Len(all_files_attributes) = Len(readable)
        /\ report.scanned = Len(readable)
        /\ OwnEntries

\* With no name shared, it is so.
DistinctNamesOneEntryPerReadFile ==
    (InspectorEnded /\ DistinctNames) =>
        /\ Len(all_files_attributes) = Len(readable)
        /\ report.scanned = Len(readable)
        /\ OwnEntries

\* ---------------------------------------------------------------- C22
\* the variable set of the k-th file read
read_vars(k) == DOMAIN dataset_at(readable[k]).vars

\* the k-th file read is reported, with missing = reference - file and
\* extra = file - reference
Reported(k) ==
    \E e \in DOMAIN report.inconsistent_files :
        /\ report.inconsistent_files[e].filename = readable[k].name
        /\ report.inconsistent_files[e].missing_vars = read_vars(1) \ read_vars(k)
        /\ report.inconsistent_files[e].extra_vars = read_vars(k) \ read_vars(1)

Named(k) ==
    \E e \in DOMAIN report.inconsistent_files :
        report.inconsistent_files[e].filename = readable[k].name

ReferenceIsFirstRead ==
    /\ report.base_attributes = read_vars(1)
    /\ report.first_file_name = readable[1].name
    /\ \A k \in 2..Len(readable) :
          IF read_vars(k) # read_vars(1) THEN Reported(k) ELSE ~Named(k)

\* C22: the reference is the variable set of the first file read, and every
\* other file read is reported exactly when its variable set differs from the
\* reference, with its missing and its extra variables.
C22_ReferenceIsFirstRead ==
    (InspectorEnded /\ readable # <<>>) => ReferenceIsFirstRead

\* With no name shared, it is so.
DistinctNamesReferenceIsFirstRead ==
    (InspectorEnded /\ readable # <<>> /\ DistinctNames) => ReferenceIsFirstRead

\* ---------------------------------------------------------------- C23
CheckerEnded == script = "data_quality_checker" /\ scan_pc = "ended"

\* the three core columns of a file, by either spelling
Core(ds, lower, upper) ==
    IF lower \in DOMAIN ds.vars THEN ds.vars[lower] ELSE ds.vars[upper]
HasCore(ds) ==
    /\ \E v \in {"temp_adjusted", "TEMP_ADJUSTED"} : v \in DOMAIN ds.vars
    /\ \E v \in {"psal_adjusted", "PSAL_ADJUSTED"} : v \in DOMAIN ds.vars
    /\ \E v \in {"pres_adjusted", "PRES_ADJUSTED"} : v \in DOMAIN ds.vars
Temp(ds) == Core(ds, "temp_adjusted", "TEMP_ADJUSTED")
Psal(ds) == Core(ds, "psal_adjusted", "PSAL_ADJUSTED")
Pres(ds) == Core(ds, "pres_adjusted", "PRES_ADJUSTED")

\* every entry of the column is the same value
IsConstant(col) == \A i, j \in DOMAIN col : col[i] = col[j]
\* the sample standard deviation of the column exists and is zero
ZeroDeviation(col) ==
    /\ \E i, j \in DOMAIN col : i # j /\ ~isnan(col[i]) /\ ~isnan(col[j])
    /\ \A i, j \in DOMAIN col : (~isnan(col[i]) /\ ~isnan(col[j])) => col[i] = col[j]

\* the reading of the last reason: constant columns, or zero deviation
Degenerate(col, by_deviation) ==
    IF by_deviation THEN ZeroDeviation(col) ELSE IsConstant(col)

\* the first reason of the claim's list that applies to a file
FirstReason(ds, by_deviation) ==
    IF ds.status # "ok" \/ ~HasCore(ds) THEN "failed"
    ELSE IF Len(Temp(ds)) = 0 THEN "empty"
    ELSE IF (\A i \in DOMAIN Temp(ds) : isnan(Temp(ds)[i]))
            /\ (\A i \in DOMAIN Psal(ds) : isnan(Psal(ds)[i]))
    THEN "all_null"
    ELSE IF Degenerate(Temp(ds), by_deviation) /\ Degenerate(Pres(ds), by_deviation)
    THEN "identical"
    ELSE "valid"

\* the records the claim's list yields for the files of a list, in order
RECURSIVE Records(_, _)
Records(files, by_deviation) ==
    IF files = <<>> THEN <<>>
    ELSE LET reason == FirstReason(dataset_at(Head(files)), by_deviation)
         IN  (IF reason = "valid" THEN <<>>
              ELSE <<[filename |-> Head(files).name, reason |-> reason]>>)
             \o Records(Tail(files), by_deviation)

\* the files the checker's loop is through
Checked ==
    SubSeq(nc_files_to_check(tree), 1,
           IF scan_pc = "opened" THEN scan_pos - 1
           ELSE IF scan_pos = 0 THEN 0 ELSE scan_pos - 1)

CoreFields == {"temperature", "salinity", "pressure"}

\* the source name the ETL reconciliation resolves a field to, or "None"
etl_name(ds, clean_name) ==
    LET k == CHOOSE k \in 1..Len(potential_names) :
                 potential_names[k].clean = clean_name
    IN  first_present(ds, potential_names[k].ugly)

\* the source name the checker resolves a field to, or "None"
checker_name(ds, clean_name) ==
    LET cm == check_column_map(ds)
    IN  IF \E u \in DOMAIN cm : cm[u] = clean_name
        THEN CHOOSE u \in DOMAIN cm : cm[u] = clean_name
        ELSE "None"

\* the files of the tree that can be opened
Openable == {i \in DOMAIN tree : tree[i].status = "ok"}

\* C24: for every file the checker resolves temperature, salinity and
\* pressure to the names the ETL reconciliation resolves them to, and it
\* rejects the file for a missing core variable exactly when the ETL leaves
\* one of the three unresolved.
C24_SameReconciliation ==
    \A i \in Openable :
        /\ \A f \in CoreFields : checker_name(tree[i], f) = etl_name(tree[i], f)
        /\ (quality_check(tree[i]) = "failed")
              <=> (\E f \in CoreFields : etl_name(tree[i], f) = "None")

\* the checker went through a file holding both spellings and through a file
\* without salinity, and recorded the latter alone
C24_Witness ==
    /\ CheckerEnded
    /\ \E i \in Openable : DOMAIN tree[i].vars = DOMAIN BothCase
    /\ \E i \in Openable : DOMAIN tree[i].vars = DOMAIN NoPsal
    /\ Len(flagged_files) = 1
    /\ flagged_files[1].reason = "failed"

\* ---------------------------------------------------------------- C25
\* the rows the ETL loads from the files of a list, given the files whose
\* insert fails: a function of the files alone
RECURSIVE LoadedRows(_, _)
LoadedRows(files, failed) ==
    IF files = <<>> THEN <<>>
    ELSE process_profile_file(dataset_at(Head(files)), Head(files),
                              Head(files) \notin failed).rows
         \o LoadedRows(Tail(files), failed)

\* the table a complete ETL run leaves, whatever ran before it
EtlResult ==
    \E before \in {<<>>, <<OldRow>>} :
        table = (IF truncates = <<TRUE>> THEN <<>> ELSE before)
                \o LoadedRows(walk(tree), FailedInserts)

\* a step of a diagnostic script
PassStep == <<handles, diag>>' # <<handles, diag>>

\* C25: no step of the inspector or of the checker changes argo_profiles or
\* a source file, and the table a complete ETL run leaves is the one its
\* files and its inserts determine, whether or not a pass ran before it.
C25_PassesReadOnly ==
    [][ /\ PassStep => UNCHANGED <<table, table_exists, tree>>
        /\ (pc # "done" /\ pc' = "done") => (EtlResult /\ table' = table) ]_vars

\* a pass that read files ended, and the ETL run after it loaded rows
C25_Witness ==
    /\ scan_pc = "ended"
    /\ (all_files_attributes # <<>> \/ flagged_files # <<>>)
    /\ pc = "done"
    /\ RunRows # <<>>
    /\ table = RunRows

\* ---------------------------------------------------------------- C26
\* to_sql is reached for the k-th file processed: were it to raise, the
\* failure would be reported
InsertReached(k) ==
    HasMsg(process_profile_file(ds_of(k), results[k].file, FALSE), "insert_failed")
\* the batch to_sql is handed: what it appends when it succeeds
Batch(k) == process_profile_file(ds_of(k), results[k].file, TRUE).rows

\* C26: per file, the insert is reached at most once and never with an empty
\* batch, what the file adds to the table is that one batch or nothing, and
\* the batch holds a row for every index that passes the NaN filter: rows
\* collected before an error at a later index are not loaded.
C26_OneBatchAllOrNone ==
    \A k \in DOMAIN results :
        /\ InsertReached(k) => Batch(k) # <<>>
        /\ results[k].out.rows \in {<<>>, Batch(k)}
        /\ results[k].out.rows # <<>> => InsertReached(k)
        /\ results[k].out.rows # <<>> =>
              Len(results[k].out.rows) = Cardinality(valid_levels(ds_of(k)))
        /\ results[k].out.ret = Len(results[k].out.rows)

\* a file whose first level is valid and whose second level raises was
\* processed and loaded nothing
C26_Witness ==
    /\ pc = "done"
    /\ \E k \in DOMAIN results :
          /\ HasMsg(results[k].out, "array_error")
          /\ has(ds_of(k), "JULD")
          /\ Len(values(ds_of(k), "JULD")) = 1
          /\ Len(values(ds_of(k), "PRES_ADJUSTED")) = 2
          /\ ~isnan(values(ds_of(k), "TEMP_ADJUSTED")[1])
          /\ ~isnan(values(ds_of(k), "PSAL_ADJUSTED")[1])
          /\ results[k].out.rows = <<>>
    /\ table = <<>>

\* ---------------------------------------------------------------- C27
\* the rows of the table that this run appended: all but the row an earlier
\* load left, which no file of the run can produce
AppendedThisRun == {i \in DOMAIN table : table[i] # OldRow}

\* the count the final summary prints
SummaryCount ==
    LET k == CHOOSE k \in DOMAIN log : log[k].kind = "summary"
    IN  log[k].n

\* C27: throughout the per-file loop the running total is the number of rows
\* appended to argo_profiles in this run, and the total the summary prints
\* is the row count of the table when the truncate of this run succeeded.
C27_TotalIsRowsAppended ==
    /\ pc \in {"loop", "done"} => total_rows_loaded = Cardinality(AppendedThisRun)
    /\ pc = "done" =>
          /\ \E k \in DOMAIN log : log[k].kind = "summary"
          /\ SummaryCount = total_rows_loaded
          /\ truncates = <<TRUE>> => SummaryCount = Len(table)

\* a run on a cleared table ended with rows loaded and with a file whose
\* insert failed
C27_Witness ==
    /\ pc = "done"
    /\ truncates = <<TRUE>>
    /\ FailedInserts # {}
    /\ SummaryCount = Len(table)
    /\ Len(table) > 0

\* ---------------------------------------------------------------- C29
AnswerKeys == {"sql_query", "result_data", "messages", "metadata", "error"}

\* C29: a call of run_ai_pipeline always returns, with a dict of the five
\* keys; its error is None exactly when nothing failed, which is on the
\* data-query and conversational paths; on a failure the error is not None,
\* result_data is None and the intent is 'error', the category being
\* configuration_error for a ConfigError.
C29_AlwaysAnswers ==
    /\ agent_pc \in {"idle", "init", "route", "rag", "execute", "converse", "returned"}
    /\ agent_pc = "returned" =>
          /\ DOMAIN answer = AnswerKeys
          /\ (answer.error = NoneValue) <=> (failure = "none")
          /\ failure = "none" => answer.metadata.intent \in {"data_query", "conversational"}
          /\ failure # "none" =>
                /\ answer.error # NoneValue
                /\ answer.result_data = NoneValue
                /\ answer.metadata.intent = "error"
          /\ failure = "config" => answer.metadata.category = "configuration_error"

\* the second call failed on the components the first call had cached
C29_Witness ==
    /\ agent_pc = "returned"
    /\ calls = 2
    /\ components
    /\ failure = "exception"
    /\ answer.metadata.category = "provider_internal_error"

\* ---------------------------------------------------------------- C30
Registered == Range(connected_websockets)

\* a socket is in the list only between its accept and the end of its
\* handler, and never twice
RegisteredWhileHandled ==
    /\ NoDup(connected_websockets)
    /\ \A ws \in Registered : handler[ws] \in {"welcome", "receiving", "echo"}

\* a broadcast removes exactly the sockets whose send failed and keeps the others
BroadcastRemovesFailed ==
    broadcast.pc = "done" =>
        /\ broadcast.removed \subseteq broadcast.failed
        /\ broadcast.failed \cap Registered = {}
        /\ broadcast.failed \subseteq broadcast.attempted

\* a broadcast attempts a send to every socket that stays registered for the
\* whole broadcast
BroadcastReachesAll ==
    broadcast.pc = "done" => broadcast.stayed \subseteq broadcast.attempted

\* C30: under any interleaving of handlers and broadcasts, the list holds a
\* socket only between its accept and the end of its handler and never twice;
\* a broadcast attempts a send to every socket registered for the whole
\* broadcast, removes exactly the sockets whose send failed and keeps the others.
C30_RegistryAndBroadcast ==
    /\ RegisteredWhileHandled
    /\ BroadcastRemovesFailed
    /\ BroadcastReachesAll

\* the registry part and the removal part alone
C30_RegistryAndRemoval ==
    /\ RegisteredWhileHandled
    /\ BroadcastRemovesFailed

====
